---- MODULE Spec2Model ----
(***************************************************************************)
(* The laser-tag robot controller of src/FinalCode/pi.py as a state        *)
(* machine.                                                                *)
(*                                                                         *)
(* Threads of the program:                                                 *)
(*   - the asyncio event loop: control_loop (one iteration = one tick) and *)
(*     ControlProtocol.datagram_received, which runs only while the tick   *)
(*     is suspended in asyncio.sleep;                                      *)
(*   - pigpio's callback thread: IRReceiver.edge_callback, process_bursts  *)
(*     and on_laser_hit;                                                   *)
(*   - one daemon thread per dispatched fire request: send_team_id.        *)
(*                                                                         *)
(* Units: time is an integer number of microseconds (time.time() and the   *)
(* pigpio tick read the same clock); vx, vy, omega and speed are integers  *)
(* in hundredths (100 is 1.0).                                             *)
(***************************************************************************)
EXTENDS Integers, Sequences, FiniteSets, TLC

VARIABLES
    clock,            \* wall clock, microseconds
    state,            \* the dict `state` (pi.py 72-75)
    last_cmd_time,    \* pi.py 65
    last_input_time,  \* pi.py 66
    in_standby,       \* pi.py 67
    laser,            \* the dict `laser_tag_state` (pi.py 78-84)
    stby,             \* level of each STBY pin
    motors,           \* per motor: PWM duty on EN, level of EN, IN1, IN2
    tick_pc,          \* where control_loop is within its iteration
    tick_now,         \* control_loop's local `now`
    respawned,        \* this iteration has run the respawn of lines 404-418
    cb_pc,            \* where the pigpio callback thread is in on_laser_hit
    running,          \* FALSE once main()'s finally clause has run cleanup()
    threads,          \* the fire threads started by datagram_received
    tx,               \* the last burst put on IR_TX_GPIO
    rx,               \* per receiver pin: bursts, last_tick, last_burst_time
    wire,             \* the edges still to reach a receiver pin
    pending,          \* the edge handed to the callback thread, not yet handled
    net,              \* the datagram taken in and the reply handed to
                      \* transport.sendto by the step just made, if any
    proc              \* the process: where __main__ is, its exit status,
                      \* pi.connected, the UDP endpoint, the receiver pins
                      \* with a callback registered

vars == <<clock, state, last_cmd_time, last_input_time, in_standby, laser,
          stby, motors, tick_pc, tick_now, respawned, cb_pc, running, threads,
          tx, rx,
          wire, pending, net, proc>>

cmdVars == <<state, last_cmd_time, last_input_time>>
pinVars == <<stby, motors>>
tickVars == <<tick_pc, tick_now, respawned>>
fireVars == <<threads, tx>>
irVars == <<rx, wire, pending>>

----------------------------------------------------------------------------
(* Program constants *)

COMMAND_TIMEOUT_S == 800000
POWER_SAVE_TIMEOUT_S == 10000000
HIT_DISABLE_TIME == 10000000
DEADBAND == 5
MIN_DUTY_FLOOR == 30
PURE_DC_THRESHOLD == 80
BIT_0_BURST == 800
BIT_1_BURST == 1600
START_END_BURST == 2400
TOLERANCE == 200
CARRIER_PERIOD_US == 26
GAP_US == 100000
FRAME_LEN == 10
INTER_BURST_US == 800

MotorNames == {"A", "B", "C", "D"}
STBY_PINS == {9, 11}
IR_RX_GPIOS == {4, 27, 12}
DIR_OFFSET == [m \in MotorNames |-> 1]

(* Bounds of the model *)
MaxPeriods == 2
MaxThreads == 2
MaxBurst == 2800
MaxAxis == 120

Abs(x) == IF x < 0 THEN -x ELSE x
Max2(a, b) == IF a >= b THEN a ELSE b
Min2(a, b) == IF a <= b THEN a ELSE b
clamp(v, lo, hi) == Max2(lo, Min2(hi, v))

----------------------------------------------------------------------------
(* Motor outputs *)

Stopped == [pwm |-> 0, en |-> 0, in1 |-> 0, in2 |-> 0]

\* stop_all_motors(): duty 0 and both direction pins low on every motor
stop_all_motors == [m \in MotorNames |-> Stopped]

\* apply_motor without the minimum duty
apply_motor_NoFloor(name, num, den) ==
    LET n == clamp(num, -den, den) * DIR_OFFSET[name]
        pct == (Abs(n) * 100) \div den
    IN  IF Abs(n) * 1000 < den
        THEN Stopped
        ELSE IF pct >= PURE_DC_THRESHOLD
             THEN [pwm |-> 0, en |-> 1,
                   in1 |-> IF n > 0 THEN 1 ELSE 0, in2 |-> IF n > 0 THEN 0 ELSE 1]
             ELSE [pwm |-> (pct * 255) \div 100, en |-> 0,
                   in1 |-> IF n > 0 THEN 1 ELSE 0, in2 |-> IF n > 0 THEN 0 ELSE 1]

\* apply_motor(name, norm) for norm = num / den (den > 0)
apply_motor(name, num, den) ==
    LET n == clamp(num, -den, den) * DIR_OFFSET[name]
        pct == (Abs(n) * 100) \div den
    IN  IF Abs(n) * 1000 < den
        THEN Stopped
        ELSE IF pct >= PURE_DC_THRESHOLD
             THEN [pwm |-> 0, en |-> 1,
                   in1 |-> IF n > 0 THEN 1 ELSE 0, in2 |-> IF n > 0 THEN 0 ELSE 1]
             ELSE [pwm |-> (Max2(MIN_DUTY_FLOOR, pct) * 255) \div 100, en |-> 0,
                   in1 |-> IF n > 0 THEN 1 ELSE 0, in2 |-> IF n > 0 THEN 0 ELSE 1]

\* Wheels with omega added to the front right wheel
Wheels_FrPlusOmega(vx, vy, omega) ==
    [A |-> vy + vx + omega,
     B |-> -vy + vx + omega,
     C |-> -vy + vx + omega,
     D |-> vy + vx - omega]

\* Wheels with vx subtracted from the rear right wheel
Wheels_RrMinusVx(vx, vy, omega) ==
    [A |-> vy + vx + omega,
     B |-> -vy + vx - omega,
     C |-> -vy + vx + omega,
     D |-> vy - vx - omega]

\* the raw wheel values of drive_mecanum, in hundredths
Wheels(vx, vy, omega) ==
    [A |-> vy + vx + omega,
     B |-> -vy + vx - omega,
     C |-> -vy + vx + omega,
     D |-> vy + vx - omega]

\* Scale with the division left out
Scale_Fixed(w) == 100

\* line 166: scale = max(1.0, abs(fl), abs(fr), abs(rl), abs(rr)), in
\* hundredths
Scale(w) ==
    Max2(Max2(100, Abs(w.A)), Max2(Max2(Abs(w.B), Abs(w.C)), Abs(w.D)))

\* drive_mecanum(vx, vy, omega, max_speed): the four motor outputs
drive_mecanum(vx, vy, omega, max_speed) ==
    LET w == Wheels(vx, vy, omega)
    IN  [m \in MotorNames |-> apply_motor(m, w[m] * max_speed, Scale(w) * 100)]

AllStopped == \A m \in MotorNames : motors[m] = Stopped
StbyLow == \A s \in STBY_PINS : stby[s] = 0
StbyHigh == \A s \in STBY_PINS : stby[s] = 1

----------------------------------------------------------------------------
(* Initial state: after main() has run up to `await control_loop()` *)

NoHit == [is_hit |-> FALSE, hit_by_team |-> 0, hit_time |-> 0,
          time_remaining |-> 0, is_self_hit |-> FALSE]

InitState == [vx |-> 0, vy |-> 0, omega |-> 0, speed |-> 100,
              estop |-> FALSE, fire |-> FALSE, team_id |-> 1]

NoThread == [pc |-> "none", team |-> 0, i |-> 0]
NoTx == [by |-> 0, i |-> 0, us |-> 0]
NewReceiver == [bursts |-> <<>>, last_tick |-> 0, last_burst_time |-> 0]
NoEdge == [gpio |-> 0, level |-> 2, tick |-> 0]
NoNet == [kind |-> "none", msg |-> <<>>, sent |-> <<>>]
NoWire == [team |-> 0, pos |-> 0, dev |-> 0, carrier |-> FALSE, pin |-> 4,
           next |-> -1, edges |-> <<>>]

\* time.time() when main() starts: long after the epoch
StartTime == 2 * POWER_SAVE_TIMEOUT_S

\* the process inside control_loop: driver connected, endpoint open (line
\* 483), one callback per receiver pin (lines 229, 431-435)
Live == [pc |-> "loop", status |-> -1, connected |-> TRUE, udp |-> TRUE,
         callbacks |-> IR_RX_GPIOS]

InitSession(st) ==
    /\ proc = Live
    /\ clock = StartTime
    /\ state = st
    /\ last_cmd_time = StartTime
    /\ last_input_time = StartTime
    /\ in_standby = FALSE
    /\ laser = NoHit
    /\ stby = [s \in STBY_PINS |-> 1]
    /\ motors = stop_all_motors
    /\ tick_pc = "sleep"
    /\ tick_now = StartTime
    /\ respawned = FALSE
    /\ cb_pc = "idle"
    /\ running = TRUE

Init ==
    /\ InitSession(InitState)
    /\ threads = [k \in 1..MaxThreads |-> NoThread]
    /\ tx = NoTx
    /\ rx = [g \in IR_RX_GPIOS |-> NewReceiver]
    /\ wire = NoWire
    /\ pending = NoEdge
    /\ net = NoNet

\* The command cache after a datagram that set vx and speed: every vx up to
\* MaxAxis hundredths either way, at speeds that put the wheel value around
\* 1e-3 and across the whole duty range.
DutySpeeds == {9, 10, 100}
DutyStates ==
    {[InitState EXCEPT !.vx = c[1], !.speed = c[2]] :
        c \in (-MaxAxis..MaxAxis) \X DutySpeeds}

InitDuty ==
    /\ \E st \in DutyStates : InitSession(st)
    /\ threads = [k \in 1..MaxThreads |-> NoThread]
    /\ tx = NoTx
    /\ rx = [g \in IR_RX_GPIOS |-> NewReceiver]
    /\ wire = NoWire
    /\ pending = NoEdge
    /\ net = NoNet

----------------------------------------------------------------------------
(* The clock *)

\* The instants at which the model looks at the clock: every half
\* hit-disable window, and one command timeout after each of those.
Instants ==
    {StartTime + p * (HIT_DISABLE_TIME \div 2) + o : p \in 0..MaxPeriods,
                                         o \in {0, COMMAND_TIMEOUT_S}}

Later == {t \in Instants : t > clock}

\* on_laser_hit, once begun, is over before the next instant.
Advance ==
    /\ Later # {}
    /\ cb_pc = "idle"
    /\ clock' = CHOOSE t \in Later : \A u \in Later : t <= u
    /\ UNCHANGED proc
    /\ net' = NoNet
    /\ UNCHANGED <<in_standby, laser, cb_pc, running, cmdVars, pinVars,
                   tickVars, fireVars, irVars>>

----------------------------------------------------------------------------
(* on_laser_hit, on the callback thread *)

\* HitRecord with the window of a self-hit already over when it starts
HitRecord_SelfExpired(attacking_team) ==
    [is_hit |-> TRUE, hit_by_team |-> attacking_team,
     hit_time |-> IF attacking_team = state.team_id
                  THEN clock - HIT_DISABLE_TIME ELSE clock,
     time_remaining |-> HIT_DISABLE_TIME,
     is_self_hit |-> (attacking_team = state.team_id)]

\* lines 287-309: the already-hit check and the update of laser_tag_state
HitRecord(attacking_team) ==
    [is_hit |-> TRUE, hit_by_team |-> attacking_team, hit_time |-> clock,
     time_remaining |-> HIT_DISABLE_TIME,
     is_self_hit |-> (attacking_team = state.team_id)]

\* on_laser_hit with the already-hit check of lines 287-288 left out
on_laser_hit_NoCheck(attacking_team) ==
    /\ laser' = HitRecord(attacking_team)
    /\ cb_pc' = "stop"

on_laser_hit(attacking_team) ==
    IF laser.is_hit
    THEN /\ UNCHANGED <<laser, cb_pc>>
    ELSE /\ laser' = HitRecord(attacking_team)
         /\ cb_pc' = "stop"

\* lines 311-313: stop_all_motors(); enter_standby()
HitStop ==
    /\ cb_pc = "stop"
    /\ motors' = stop_all_motors
    /\ stby' = [s \in STBY_PINS |-> 0]
    /\ cb_pc' = "idle"
    /\ UNCHANGED proc
    /\ net' = NoNet
    /\ UNCHANGED <<clock, in_standby, laser, running, cmdVars, tickVars,
                   fireVars, irVars>>

\* A valid frame for `attacker` completes on some receiver (process_bursts
\* line 278 calls on_laser_hit)
HitEvent(attacker) ==
    /\ running
    /\ cb_pc = "idle"
    /\ on_laser_hit(attacker)
    /\ UNCHANGED proc
    /\ net' = NoNet
    /\ UNCHANGED <<clock, in_standby, running, cmdVars, pinVars, tickVars,
                   fireVars, irVars>>

----------------------------------------------------------------------------
(* control_loop: one iteration *)

\* TickNow held back while a fire thread is transmitting
TickNow_WaitsForFire ==
    /\ running
    /\ tick_pc = "sleep"
    /\ \A k \in 1..MaxThreads : threads[k].pc # "send"
    /\ tick_now' = clock
    /\ respawned' = FALSE
    /\ tick_pc' = "timer"
    /\ UNCHANGED proc
    /\ net' = NoNet
    /\ UNCHANGED <<clock, in_standby, laser, cb_pc, running, cmdVars,
                   pinVars, fireVars, irVars>>

\* line 397
TickNow ==
    /\ running
    /\ tick_pc = "sleep"
    /\ tick_now' = clock
    /\ respawned' = FALSE
    /\ tick_pc' = "timer"
    /\ UNCHANGED proc
    /\ net' = NoNet
    /\ UNCHANGED <<clock, in_standby, laser, cb_pc, running, cmdVars,
                   pinVars, fireVars, irVars>>

\* TickTimer respawning only once more than HIT_DISABLE_TIME has elapsed
TickTimer_StrictElapsed ==
    /\ running
    /\ tick_pc = "timer"
    /\ IF laser.is_hit
       THEN LET elapsed == tick_now - laser.hit_time
            IN  IF elapsed > HIT_DISABLE_TIME
                THEN /\ laser' = NoHit
                     /\ respawned' = TRUE
                     /\ tick_pc' = "respawn"
                ELSE /\ laser' = [laser EXCEPT !.time_remaining =
                                      Max2(0, HIT_DISABLE_TIME - elapsed)]
                     /\ UNCHANGED respawned
                     /\ tick_pc' = "decide"
       ELSE /\ UNCHANGED <<laser, respawned>>
            /\ tick_pc' = "decide"
    /\ UNCHANGED proc
    /\ net' = NoNet
    /\ UNCHANGED <<clock, in_standby, tick_now, cb_pc, running, cmdVars,
                   pinVars, fireVars, irVars>>

\* lines 400-416
TickTimer ==
    /\ running
    /\ tick_pc = "timer"
    /\ IF laser.is_hit
       THEN LET elapsed == tick_now - laser.hit_time
            IN  IF elapsed >= HIT_DISABLE_TIME
                THEN /\ laser' = NoHit
                     /\ respawned' = TRUE
                     /\ tick_pc' = "respawn"
                ELSE /\ laser' = [laser EXCEPT !.time_remaining =
                                      Max2(0, HIT_DISABLE_TIME - elapsed)]
                     /\ UNCHANGED respawned
                     /\ tick_pc' = "decide"
       ELSE /\ UNCHANGED <<laser, respawned>>
            /\ tick_pc' = "decide"
    /\ UNCHANGED proc
    /\ net' = NoNet
    /\ UNCHANGED <<clock, in_standby, tick_now, cb_pc, running, cmdVars,
                   pinVars, fireVars, irVars>>

\* TickRespawn with line 418 left out
TickRespawn_KeepsStandby ==
    /\ running
    /\ tick_pc = "respawn"
    /\ stby' = [s \in STBY_PINS |-> 1]
    /\ tick_pc' = "decide"
    /\ UNCHANGED proc
    /\ net' = NoNet
    /\ UNCHANGED <<clock, in_standby, laser, motors, tick_now, respawned,
                   cb_pc, running, cmdVars, fireVars, irVars>>

\* TickRespawn with exit_standby() left out: only the flag is cleared
TickRespawn_NoExit ==
    /\ running
    /\ tick_pc = "respawn"
    /\ in_standby' = FALSE
    /\ tick_pc' = "decide"
    /\ UNCHANGED proc
    /\ net' = NoNet
    /\ UNCHANGED <<clock, laser, stby, motors, tick_now, respawned, cb_pc,
                   running, cmdVars, fireVars, irVars>>

\* lines 417-418: exit_standby(); in_standby = False
TickRespawn ==
    /\ running
    /\ tick_pc = "respawn"
    /\ stby' = [s \in STBY_PINS |-> 1]
    /\ in_standby' = FALSE
    /\ tick_pc' = "decide"
    /\ UNCHANGED proc
    /\ net' = NoNet
    /\ UNCHANGED <<clock, laser, motors, tick_now, respawned, cb_pc, running,
                   cmdVars, fireVars, irVars>>

\* MotorBranch with the hit test of line 421 left out
MotorBranch_IgnoresHit ==
    IF state.estop \/ (tick_now - last_cmd_time) > COMMAND_TIMEOUT_S
    THEN "stop"
    ELSE IF (tick_now - last_input_time) > POWER_SAVE_TIMEOUT_S /\ ~in_standby
         THEN "standby"
         ELSE IF ~in_standby /\ ~laser.is_hit
              THEN "drive"
              ELSE "sleep"

\* MotorBranch with the command timeout of line 421 left out
MotorBranch_NoTimeout ==
    IF laser.is_hit \/ state.estop
    THEN "stop"
    ELSE IF (tick_now - last_input_time) > POWER_SAVE_TIMEOUT_S /\ ~in_standby
         THEN "standby"
         ELSE IF ~in_standby /\ ~laser.is_hit
              THEN "drive"
              ELSE "sleep"

\* MotorBranch with `and not in_standby` of line 423 left out
MotorBranch_ReentersStandby ==
    IF laser.is_hit \/ state.estop
       \/ (tick_now - last_cmd_time) > COMMAND_TIMEOUT_S
    THEN "stop"
    ELSE IF (tick_now - last_input_time) > POWER_SAVE_TIMEOUT_S
         THEN "standby"
         ELSE IF ~in_standby /\ ~laser.is_hit
              THEN "drive"
              ELSE "sleep"

\* the conditions of lines 421, 423 and 426
MotorBranch ==
    IF laser.is_hit \/ state.estop
       \/ (tick_now - last_cmd_time) > COMMAND_TIMEOUT_S
    THEN "stop"
    ELSE IF (tick_now - last_input_time) > POWER_SAVE_TIMEOUT_S /\ ~in_standby
         THEN "standby"
         ELSE IF ~in_standby /\ ~laser.is_hit
              THEN "drive"
              ELSE "sleep"

TickDecide ==
    /\ running
    /\ tick_pc = "decide"
    /\ tick_pc' = MotorBranch
    /\ UNCHANGED proc
    /\ net' = NoNet
    /\ UNCHANGED <<clock, in_standby, laser, tick_now, respawned, cb_pc,
                   running, cmdVars, pinVars, fireVars, irVars>>

\* TickStop with the STBY pins driven low as enter_standby does
TickStop_LowersStby ==
    /\ running
    /\ tick_pc = "stop"
    /\ motors' = stop_all_motors
    /\ stby' = [s \in STBY_PINS |-> 0]
    /\ tick_pc' = "sleep"
    /\ UNCHANGED proc
    /\ net' = NoNet
    /\ UNCHANGED <<clock, in_standby, laser, tick_now, respawned, cb_pc,
                   running, cmdVars, fireVars, irVars>>

\* line 422
TickStop ==
    /\ running
    /\ tick_pc = "stop"
    /\ motors' = stop_all_motors
    /\ tick_pc' = "sleep"
    /\ UNCHANGED proc
    /\ net' = NoNet
    /\ UNCHANGED <<clock, in_standby, laser, stby, tick_now, respawned, cb_pc,
                   running, cmdVars, fireVars, irVars>>

\* enter_standby with stop_all_motors() left out
enter_standby_KeepsMotors ==
    /\ UNCHANGED motors
    /\ stby' = [s \in STBY_PINS |-> 0]

\* enter_standby(): stop_all_motors() and both STBY pins low
enter_standby ==
    /\ motors' = stop_all_motors
    /\ stby' = [s \in STBY_PINS |-> 0]

\* lines 424-425: enter_standby(); in_standby = True
TickStandby ==
    /\ running
    /\ tick_pc = "standby"
    /\ enter_standby
    /\ in_standby' = TRUE
    /\ tick_pc' = "sleep"
    /\ UNCHANGED proc
    /\ net' = NoNet
    /\ UNCHANGED <<clock, laser, tick_now, respawned, cb_pc, running, cmdVars,
                   fireVars, irVars>>

\* line 427
TickDrive ==
    /\ running
    /\ tick_pc = "drive"
    /\ motors' = drive_mecanum(state.vx, state.vy, state.omega, state.speed)
    /\ tick_pc' = "sleep"
    /\ UNCHANGED proc
    /\ net' = NoNet
    /\ UNCHANGED <<clock, in_standby, laser, stby, tick_now, respawned, cb_pc,
                   running, cmdVars, fireVars, irVars>>

Tick == TickNow \/ TickTimer \/ TickRespawn \/ TickDecide \/ TickStop
        \/ TickStandby \/ TickDrive

----------------------------------------------------------------------------
(* ControlProtocol.datagram_received, on the event loop between two ticks *)

Get(msg, k, default) == IF k \in DOMAIN msg THEN msg[k] ELSE default

\* UpdateState with a nonzero vx kept against the message
UpdateState_FirstWins(msg) ==
    [vx |-> IF state.vx # 0 THEN state.vx ELSE Get(msg, "vx", state.vx),
     vy |-> Get(msg, "vy", state.vy),
     omega |-> Get(msg, "omega", state.omega),
     speed |-> clamp(Get(msg, "speed", state.speed), 0, 100),
     estop |-> Get(msg, "estop", FALSE),
     fire |-> Get(msg, "fire", FALSE),
     team_id |-> Get(msg, "team_id", state.team_id)]

\* UpdateState with estop kept when the message omits it
UpdateState_LatchesEstop(msg) ==
    [vx |-> Get(msg, "vx", state.vx),
     vy |-> Get(msg, "vy", state.vy),
     omega |-> Get(msg, "omega", state.omega),
     speed |-> clamp(Get(msg, "speed", state.speed), 0, 100),
     estop |-> Get(msg, "estop", state.estop),
     fire |-> Get(msg, "fire", FALSE),
     team_id |-> Get(msg, "team_id", state.team_id)]

\* lines 353-360: the fields of `state` after the message
UpdateState(msg) ==
    [vx |-> Get(msg, "vx", state.vx),
     vy |-> Get(msg, "vy", state.vy),
     omega |-> Get(msg, "omega", state.omega),
     speed |-> clamp(Get(msg, "speed", state.speed), 0, 100),
     estop |-> Get(msg, "estop", FALSE),
     fire |-> Get(msg, "fire", FALSE),
     team_id |-> Get(msg, "team_id", state.team_id)]

FreeSlots == {k \in 1..MaxThreads : threads[k].pc = "none"}

\* line 370: threading.Thread(target=...).start()
StartThread ==
    LET k == CHOOSE j \in FreeSlots : \A h \in FreeSlots : j <= h
    IN  [threads EXCEPT ![k] = [pc |-> "start", team |-> 0, i |-> 0]]

\* FireDispatched with the hit test left out
FireDispatched_IgnoresHit(st) == st.fire

\* line 368: the condition under which the fire thread is started
FireDispatched(st) == st.fire /\ ~laser.is_hit

\* ExceedsDeadband with the test of omega left out
ExceedsDeadband_NoOmega(st) ==
    Abs(st.vx) > DEADBAND \/ Abs(st.vy) > DEADBAND \/ st.estop

\* lines 373-374: the condition under which standby is left
ExceedsDeadband(st) ==
    Abs(st.vx) > DEADBAND \/ Abs(st.vy) > DEADBAND \/ Abs(st.omega) > DEADBAND
    \/ st.estop

\* lines 353-376: what the handler does to the program state
Handle(msg) ==
    LET st == UpdateState(msg)
    IN  /\ state' = st
        /\ last_cmd_time' = clock
        /\ last_input_time' = Get(msg, "last_input_time", last_input_time)
        /\ IF FireDispatched(st)
           THEN /\ FreeSlots # {}
                /\ threads' = StartThread
           ELSE UNCHANGED threads
        /\ IF in_standby /\ ExceedsDeadband(st)
           THEN /\ stby' = [s \in STBY_PINS |-> 1]
                /\ in_standby' = FALSE
           ELSE UNCHANGED <<stby, in_standby>>

\* lines 379-385: the response, built from `state` and from the
\* laser_tag_state l
Telemetry(st, l) ==
    [team_id |-> st.team_id, is_hit |-> l.is_hit,
     hit_by_team |-> l.hit_by_team, time_remaining |-> l.time_remaining,
     is_self_hit |-> l.is_self_hit]

\* the whole handler, with no hit arriving while it runs
Datagram(msg) ==
    /\ running
    /\ tick_pc = "sleep"
    /\ Handle(msg)
    /\ UNCHANGED proc
    /\ net' = [kind |-> "cmd", msg |-> <<msg>>,
               sent |-> <<Telemetry(UpdateState(msg), laser)>>]
    /\ UNCHANGED <<clock, laser, motors, cb_pc, running, tx, tickVars,
                   irVars>>

\* DatagramGarbage answered with the telemetry of lines 379-388
DatagramGarbage_Replies ==
    /\ running
    /\ tick_pc = "sleep"
    /\ UNCHANGED proc
    /\ net' = [kind |-> "garbage", msg |-> <<>>,
               sent |-> <<Telemetry(state, laser)>>]
    /\ UNCHANGED <<clock, in_standby, laser, cb_pc, running, cmdVars,
                   pinVars, tickVars, fireVars, irVars>>

\* lines 348-351: a payload that json.loads rejects
DatagramGarbage ==
    /\ running
    /\ tick_pc = "sleep"
    /\ UNCHANGED proc
    /\ net' = [kind |-> "garbage", msg |-> <<>>, sent |-> <<>>]
    /\ UNCHANGED <<clock, in_standby, laser, cb_pc, running, cmdVars,
                   pinVars, tickVars, fireVars, irVars>>

\* The datagrams of the model: a full command with live input, an idle
\* command whose last input is older than the power-save timeout, an estop
\* and a fire request.
DriveMsg == [vx |-> 100, vy |-> 0, omega |-> 50, speed |-> 100,
             estop |-> FALSE, fire |-> FALSE, last_input_time |-> clock]
IdleMsg == [vx |-> 0, vy |-> 0, omega |-> 0, speed |-> 100,
            estop |-> FALSE, fire |-> FALSE,
            last_input_time |-> clock - POWER_SAVE_TIMEOUT_S - 1]
EstopMsg == [estop |-> TRUE]
FireMsg == [vx |-> 100, fire |-> TRUE]


\* Commands that carry some of the fields only: the three axes at the
\* deadband and just inside it, each axis alone just over it, a speed
\* scale with a team id.
NearMsg == [vx |-> DEADBAND, vy |-> -DEADBAND, omega |-> DEADBAND]
OverVxMsg == [vx |-> DEADBAND + 1, vy |-> 0, omega |-> 0]
OverVyMsg == [vx |-> 0, vy |-> -(DEADBAND + 1), omega |-> 0]
OverOmegaMsg == [vx |-> 0, vy |-> 0, omega |-> DEADBAND + 1]
ConfigMsg == [speed |-> 50, team_id |-> 2]

\* Drive commands over a grid of the three axes and of the speed scale
Axes == {-100, 0, 100}
Speeds == {0, 50, 100}
KinMsgs ==
    {[vx |-> c[1], vy |-> c[2], omega |-> c[3], speed |-> c[4],
      last_input_time |-> clock] : c \in Axes \X Axes \X Axes \X Speeds}

SessionMsgs == {DriveMsg, IdleMsg, EstopMsg}
FireMsgs == {FireMsg, IdleMsg}
CmdMsgs == {IdleMsg, EstopMsg, FireMsg, NearMsg, OverVxMsg, OverVyMsg,
            OverOmegaMsg, ConfigMsg}

\* The handler while a valid frame completes on the callback thread: the
\* fields of laser_tag_state are read one by one at lines 381-384, and
\* on_laser_hit(attacker) runs after the first k of these reads.
DatagramRacingHit(msg, attacker, k) ==
    /\ running
    /\ tick_pc = "sleep"
    /\ cb_pc = "idle"
    /\ ~laser.is_hit
    /\ Handle(msg)
    /\ laser' = [HitRecord(attacker) EXCEPT
                    !.is_self_hit = (attacker = UpdateState(msg).team_id)]
    /\ cb_pc' = "stop"
    /\ LET before == Telemetry(UpdateState(msg), laser)
           after == Telemetry(UpdateState(msg), laser')
       IN  net' = [kind |-> "cmd", msg |-> <<msg>>,
                   sent |-> <<[team_id |-> before.team_id,
                               is_hit |-> before.is_hit,
                               hit_by_team |-> IF k >= 2 THEN before.hit_by_team
                                               ELSE after.hit_by_team,
                               time_remaining |->
                                   IF k >= 3 THEN before.time_remaining
                                   ELSE after.time_remaining,
                               is_self_hit |-> after.is_self_hit]>>]
    /\ UNCHANGED <<clock, motors, running, tx, tickVars, irVars, proc>>

----------------------------------------------------------------------------
(* Shutdown: main()'s finally clause, lines 498-500, and cleanup() *)

\* lines 441-444 of cleanup(): stop_all_motors() and both STBY pins low.
\* The interrupt ends control_loop wherever it is in its iteration, closes
\* the UDP transport and cancels the receivers' callbacks; a callback that
\* is running and the daemon fire threads go on until the process exits.
\* cleanup with the loop of lines 443-444 left out
cleanup_NoStby ==
    /\ motors' = stop_all_motors
    /\ UNCHANGED stby

cleanup ==
    /\ motors' = stop_all_motors
    /\ stby' = [s \in STBY_PINS |-> 0]

\* An interrupt ends control_loop: main's finally clause closes the
\* endpoint and runs cleanup(), which cancels the callbacks and stops the
\* driver; __main__'s finally clause then calls cleanup() again, on the
\* stopped driver, and whether that call raises decides the exit status.
Shutdown ==
    /\ running
    /\ running' = FALSE
    /\ cleanup
    /\ \E st \in {0, 1} :
          proc' = [pc |-> "interrupted", status |-> st, connected |-> FALSE,
                   udp |-> FALSE, callbacks |-> {}]
    /\ net' = NoNet
    /\ UNCHANGED <<clock, in_standby, laser, cb_pc, cmdVars, tickVars,
                   fireVars, irVars>>

----------------------------------------------------------------------------
(* The process: __main__, main and init_pigpio *)

\* The module globals before main() runs (lines 63-84); no pin is driven
\* yet, and pigpio.pi() will or will not find the daemon.
InitStart ==
    /\ \E c \in BOOLEAN :
          proc = [pc |-> "boot", status |-> -1, connected |-> c,
                  udp |-> FALSE, callbacks |-> {}]
    /\ clock = StartTime
    /\ state = InitState
    /\ last_cmd_time = 0
    /\ last_input_time = 0
    /\ in_standby = FALSE
    /\ laser = NoHit
    /\ stby = [s \in STBY_PINS |-> 0]
    /\ motors = stop_all_motors
    /\ tick_pc = "sleep"
    /\ tick_now = 0
    /\ respawned = FALSE
    /\ cb_pc = "idle"
    /\ running = FALSE
    /\ threads = [k \in 1..MaxThreads |-> NoThread]
    /\ tx = NoTx
    /\ rx = [g \in IR_RX_GPIOS |-> NewReceiver]
    /\ wire = NoWire
    /\ pending = NoEdge
    /\ net = NoNet

\* main, lines 465-494, with the driver connected: setup_io,
\* setup_ir_receivers, the timestamps, the endpoint, and into control_loop
StartUp ==
    /\ proc.pc = "boot"
    /\ proc.connected
    /\ proc' = Live
    /\ stby' = [s \in STBY_PINS |-> 1]
    /\ motors' = stop_all_motors
    /\ last_cmd_time' = clock
    /\ last_input_time' = clock
    /\ tick_now' = clock
    /\ running' = TRUE
    /\ net' = NoNet
    /\ UNCHANGED <<clock, state, in_standby, laser, tick_pc, respawned, cb_pc,
                   fireVars, irVars>>

\* StartFail with init_pigpio returning instead of exiting
StartFail_Continues ==
    /\ proc.pc = "boot"
    /\ ~proc.connected
    /\ proc' = [Live EXCEPT !.connected = FALSE]
    /\ last_cmd_time' = clock
    /\ last_input_time' = clock
    /\ tick_now' = clock
    /\ running' = TRUE
    /\ net' = NoNet
    /\ UNCHANGED <<clock, state, in_standby, laser, tick_pc, respawned, cb_pc,
                   pinVars, fireVars, irVars>>

\* init_pigpio, lines 89-92, with the driver not connected: sys.exit(1)
\* leaves main before setup_io; __main__'s finally clause runs cleanup() on
\* the unconnected driver, which drives no pin, and the process ends with
\* status 1, that of sys.exit or that of an error raised by cleanup().
StartFail ==
    /\ proc.pc = "boot"
    /\ ~proc.connected
    /\ proc' = [proc EXCEPT !.pc = "refused", !.status = 1]
    /\ net' = NoNet
    /\ UNCHANGED <<clock, in_standby, laser, cb_pc, running, cmdVars, pinVars,
                   tickVars, fireVars, irVars>>

\* A GPIO write of the tick (lines 422, 424, 427) raises: the exception
\* leaves control_loop, main's finally clause closes the endpoint and runs
\* cleanup(), which completes or raises in its turn, and __main__ prints the
\* error and calls cleanup() once more before the process ends.
TickFault ==
    /\ running
    /\ tick_pc \in {"stop", "standby", "drive"}
    /\ tick_pc' = "raised"
    /\ running' = FALSE
    /\ \E done \in BOOLEAN :
          IF done THEN cleanup ELSE UNCHANGED pinVars
    /\ \E st \in {0, 1} :
          proc' = [pc |-> "crashed", status |-> st, connected |-> FALSE,
                   udp |-> FALSE, callbacks |-> {}]
    /\ net' = NoNet
    /\ UNCHANGED <<clock, in_standby, laser, tick_now, respawned, cb_pc,
                   cmdVars, fireVars, irVars>>

----------------------------------------------------------------------------
(* IR transmission: send_team_id on its own thread *)

RECURSIVE Pow2(_)
Pow2(n) == IF n = 0 THEN 1 ELSE 2 * Pow2(n - 1)

\* (team_id >> p) & 1
Bit(team_id, p) == (team_id \div Pow2(p)) % 2

\* FrameOf with the bits sent least significant first
FrameOf_LsbFirst(team_id) ==
    [j \in 1..FRAME_LEN |->
        IF j = 1 \/ j = FRAME_LEN
        THEN START_END_BURST
        ELSE IF Bit(team_id, j - 2) = 1 THEN BIT_1_BURST ELSE BIT_0_BURST]

\* lines 207-216: the burst_us arguments of the ten send_ir_burst calls
FrameOf(team_id) ==
    [j \in 1..FRAME_LEN |->
        IF j = 1 \/ j = FRAME_LEN
        THEN START_END_BURST
        ELSE IF Bit(team_id, 7 - (j - 2)) = 1 THEN BIT_1_BURST ELSE BIT_0_BURST]

\* send_ir_burst emitting the nominal duration, with no whole-cycle rounding
CarrierUs_Nominal(burst_us) ==
    burst_us

\* send_ir_burst: how long the carrier is on, cycles = burst_us // period
\* looped by a two-byte counter of the wave chain
CarrierUs(burst_us) ==
    ((burst_us \div CARRIER_PERIOD_US) % 65536) * CARRIER_PERIOD_US

\* the thread starts: the lambda reads state["team_id"], then lines 202-203
FireStart(k) ==
    /\ threads[k].pc = "start"
    /\ threads' = [threads EXCEPT ![k] =
                      IF laser.is_hit
                      THEN NoThread
                      ELSE [pc |-> "send", team |-> state.team_id, i |-> 0]]
    /\ UNCHANGED proc
    /\ net' = NoNet
    /\ UNCHANGED <<clock, in_standby, laser, cb_pc, running, tx, cmdVars,
                   pinVars, tickVars, irVars>>

\* one send_ir_burst call of lines 208, 213 and 216
FireBurst(k) ==
    /\ threads[k].pc = "send"
    /\ tx' = [by |-> k, i |-> threads[k].i,
              us |-> CarrierUs(FrameOf(threads[k].team)[threads[k].i + 1])]
    /\ threads' = [threads EXCEPT ![k] =
                      IF threads[k].i + 1 = FRAME_LEN
                      THEN NoThread
                      ELSE [threads[k] EXCEPT !.i = @ + 1]]
    /\ UNCHANGED proc
    /\ net' = NoNet
    /\ UNCHANGED <<clock, in_standby, laser, cb_pc, running, cmdVars,
                   pinVars, tickVars, irVars>>

InFlight == {k \in 1..MaxThreads : threads[k].pc = "send"}

----------------------------------------------------------------------------
(* IR reception: IRReceiver.edge_callback on the callback thread *)

\* The pigpio tick is a microsecond counter modulo 2^32 and pigpio.tickDiff
\* is the difference modulo 2^32.  A tick is written as its residue in
\* -2^31..2^31-1: the counter wraps where the residue passes from -1 to 0,
\* and tickDiff of two ticks less than 2^31 us apart is their difference.
\* The tick of a counter that was 0 at instant 0: every instant of the
\* sessions lies below 2^31, where that tick is the clock itself.
TickOf(t) == t

\* The tick at instant t of the counter that is 0 at the instant wire.epoch
TickAt(t) == t - wire.epoch

tickDiff(t1, t2) == t2 - t1

\* FrameValid with the check of the end burst left out
FrameValid_NoEndCheck(b) ==
    /\ Len(b) = FRAME_LEN
    /\ ~(Abs(b[1] - START_END_BURST) > TOLERANCE)
    /\ \A i \in 2..(FRAME_LEN - 1) :
          \/ Abs(b[i] - BIT_1_BURST) <= TOLERANCE
          \/ Abs(b[i] - BIT_0_BURST) <= TOLERANCE

\* FrameValid with the bounds of the two bit windows left out
FrameValid_StrictTolerance(b) ==
    /\ Len(b) = FRAME_LEN
    /\ ~(\/ Abs(b[1] - START_END_BURST) > TOLERANCE
         \/ Abs(b[FRAME_LEN] - START_END_BURST) > TOLERANCE)
    /\ \A i \in 2..(FRAME_LEN - 1) :
          \/ Abs(b[i] - BIT_1_BURST) < TOLERANCE
          \/ Abs(b[i] - BIT_0_BURST) < TOLERANCE

\* lines 256-275: the frame passes every check of process_bursts
FrameValid(b) ==
    /\ Len(b) = FRAME_LEN
    /\ ~(\/ Abs(b[1] - START_END_BURST) > TOLERANCE
         \/ Abs(b[FRAME_LEN] - START_END_BURST) > TOLERANCE)
    /\ \A i \in 2..(FRAME_LEN - 1) :
          \/ Abs(b[i] - BIT_1_BURST) <= TOLERANCE
          \/ Abs(b[i] - BIT_0_BURST) <= TOLERANCE

\* lines 265-273: team_id |= 1 << bit_pos for the bursts read as BIT_1,
\* over the bursts at (1-based) positions i..9
RECURSIVE DecodeFrom(_, _)
DecodeFrom(b, i) ==
    IF i > FRAME_LEN - 1
    THEN 0
    ELSE (IF Abs(b[i] - BIT_1_BURST) <= TOLERANCE THEN Pow2(7 - (i - 2)) ELSE 0)
         + DecodeFrom(b, i + 1)

DecodeTeam(b) == DecodeFrom(b, 2)

\* process_bursts with self.bursts = b
process_bursts(b) ==
    IF FrameValid(b)
    THEN on_laser_hit(DecodeTeam(b))
    ELSE UNCHANGED <<laser, cb_pc>>

\* edge_callback without the gap test of line 241
edge_callback_NoGap(gpio, level, tick) ==
    IF level = 0
    THEN /\ rx' = [rx EXCEPT ![gpio].last_tick = tick]
         /\ UNCHANGED <<laser, cb_pc>>
    ELSE IF level = 1 /\ rx[gpio].last_tick # 0
         THEN LET burst_width == tickDiff(rx[gpio].last_tick, tick)
                  b == Append(rx[gpio].bursts, burst_width)
              IN  /\ rx' = [rx EXCEPT ![gpio].bursts =
                                          IF Len(b) = FRAME_LEN THEN <<>> ELSE b,
                                      ![gpio].last_burst_time = clock]
                  /\ IF Len(b) = FRAME_LEN
                     THEN process_bursts(b)
                     ELSE UNCHANGED <<laser, cb_pc>>
         ELSE UNCHANGED <<rx, laser, cb_pc>>

\* edge_callback with the buffer emptied only after a frame that decodes
edge_callback_KeepsInvalid(gpio, level, tick) ==
    IF level = 0
    THEN /\ rx' = [rx EXCEPT ![gpio].last_tick = tick]
         /\ UNCHANGED <<laser, cb_pc>>
    ELSE IF level = 1 /\ rx[gpio].last_tick # 0
         THEN LET burst_width == tickDiff(rx[gpio].last_tick, tick)
                  kept == IF clock - rx[gpio].last_burst_time > GAP_US
                          THEN <<>>
                          ELSE rx[gpio].bursts
                  b == Append(kept, burst_width)
              IN  /\ rx' = [rx EXCEPT ![gpio].bursts =
                                          IF Len(b) = FRAME_LEN /\ FrameValid(b)
                                          THEN <<>> ELSE b,
                                      ![gpio].last_burst_time = clock]
                  /\ IF Len(b) = FRAME_LEN
                     THEN process_bursts(b)
                     ELSE UNCHANGED <<laser, cb_pc>>
         ELSE UNCHANGED <<rx, laser, cb_pc>>

\* edge_callback with one burst buffer and one edge timestamp, those of
\* GPIO 4, used by every receiver
edge_callback_SharedBuffer(gpio, level, tick) ==
    IF level = 0
    THEN /\ rx' = [rx EXCEPT ![4].last_tick = tick]
         /\ UNCHANGED <<laser, cb_pc>>
    ELSE IF level = 1 /\ rx[4].last_tick # 0
         THEN LET burst_width == tickDiff(rx[4].last_tick, tick)
                  kept == IF clock - rx[4].last_burst_time > GAP_US
                          THEN <<>>
                          ELSE rx[4].bursts
                  b == Append(kept, burst_width)
              IN  /\ rx' = [rx EXCEPT ![4].bursts =
                                          IF Len(b) = FRAME_LEN THEN <<>> ELSE b,
                                      ![4].last_burst_time = clock]
                  /\ IF Len(b) = FRAME_LEN
                     THEN process_bursts(b)
                     ELSE UNCHANGED <<laser, cb_pc>>
         ELSE UNCHANGED <<rx, laser, cb_pc>>

\* edge_callback(gpio, level, tick), run at time `clock`.  The call of
\* process_bursts at line 243 is made with 1..9 buffered bursts and returns
\* at line 257.
edge_callback(gpio, level, tick) ==
    IF level = 0
    THEN /\ rx' = [rx EXCEPT ![gpio].last_tick = tick]
         /\ UNCHANGED <<laser, cb_pc>>
    ELSE IF level = 1 /\ rx[gpio].last_tick # 0
         THEN LET burst_width == tickDiff(rx[gpio].last_tick, tick)
                  kept == IF clock - rx[gpio].last_burst_time > GAP_US
                          THEN <<>>
                          ELSE rx[gpio].bursts
                  b == Append(kept, burst_width)
              IN  /\ rx' = [rx EXCEPT ![gpio].bursts =
                                          IF Len(b) = FRAME_LEN THEN <<>> ELSE b,
                                      ![gpio].last_burst_time = clock]
                  /\ IF Len(b) = FRAME_LEN
                     THEN process_bursts(b)
                     ELSE UNCHANGED <<laser, cb_pc>>
         ELSE UNCHANGED <<rx, laser, cb_pc>>

\* pigpio hands the next edge of the wire to the callback thread
EdgeArrives ==
    /\ running
    /\ wire.edges # <<>>
    /\ pending = NoEdge
    /\ clock' = clock + Head(wire.edges).dt
    /\ pending' = [gpio |-> wire.pin, level |-> Head(wire.edges).level,
                   tick |-> TickOf(clock')]
    /\ wire' = [wire EXCEPT !.edges = Tail(@)]
    /\ UNCHANGED proc
    /\ net' = NoNet
    /\ UNCHANGED <<in_standby, laser, cb_pc, running, rx, cmdVars, pinVars,
                   tickVars, fireVars>>

EdgeCallback ==
    /\ pending # NoEdge
    /\ cb_pc = "idle"
    /\ edge_callback(pending.gpio, pending.level, pending.tick)
    /\ pending' = NoEdge
    /\ UNCHANGED proc
    /\ net' = NoNet
    /\ UNCHANGED <<clock, in_standby, running, wire, cmdVars, pinVars,
                   tickVars, fireVars>>

\* The edges a frame of burst durations d puts on a receiver pin: the pin
\* falls when a burst starts, `lead` after the previous edge for the first
\* burst and INTER_BURST_US for the others, and rises when the burst ends.
RECURSIVE EdgesFrom(_, _, _)
EdgesFrom(d, j, lead) ==
    IF j > Len(d)
    THEN <<>>
    ELSE <<[level |-> 0, dt |-> IF j = 1 THEN lead ELSE INTER_BURST_US],
           [level |-> 1, dt |-> d[j]]>>
         \o EdgesFrom(d, j + 1, lead)

TeamIds == 0..255
SampleTeams == {0, 165, 255}
Deviations == {-(TOLERANCE + 1), -TOLERANCE, TOLERANCE, TOLERANCE + 1}

\* what the transmitter of team t puts on the air, as commanded (nominal)
\* or as the carrier loop emits it
Sent(t, carrier) ==
    [j \in 1..FRAME_LEN |->
        IF carrier THEN CarrierUs(FrameOf(t)[j]) ELSE FrameOf(t)[j]]

\* A frame of team t on pin g, its burst p (if any) lengthened by v,
\* followed (if n is a team) 0.2 s later by a nominal frame of team n.
WireOf(t, p, v, c, g, n) ==
    [team |-> t, pos |-> p, dev |-> v, carrier |-> c, pin |-> g, next |-> n,
     edges |->
        EdgesFrom(IF p = 0 THEN Sent(t, c)
                  ELSE [Sent(t, c) EXCEPT ![p] = @ + v], 1, INTER_BURST_US)
        \o (IF n = -1 THEN <<>> ELSE EdgesFrom(Sent(n, FALSE), 1, 2 * GAP_US))]

Wires ==
    {WireOf(t, 0, 0, c, 4, -1) : t \in TeamIds, c \in BOOLEAN}
    \cup
    {WireOf(w[1], w[2], w[3], FALSE, w[4], w[5]) :
        w \in SampleTeams \X (1..FRAME_LEN) \X Deviations \X IR_RX_GPIOS
              \X {-1, 2}}
    \cup
    {WireOf(w[1], 0, 0, FALSE, w[2], w[3]) :
        w \in SampleTeams \X IR_RX_GPIOS \X {1, 2}}

\* The frame of team 0 with its start burst, its first bit burst or its end
\* burst replaced by one of d microseconds, for every d up to MaxBurst.
BurstWires ==
    {WireOf(0, w[1], w[2] - Sent(0, FALSE)[w[1]], FALSE, 4, -1) :
        w \in {1, 2, FRAME_LEN} \X (1..MaxBurst)}

\* The first j bursts of the frame of team t on pin g, and then, its first
\* burst ending `gap` after burst j ended, the rest of that frame (n = -1)
\* or a whole frame of team n.
GapWireOf(t, j, gap, g, n) ==
    LET rest == IF n = -1 THEN SubSeq(Sent(t, FALSE), j + 1, FRAME_LEN)
                ELSE Sent(n, FALSE)
    IN  [team |-> t, pos |-> 0, dev |-> 0, carrier |-> FALSE, pin |-> g,
         next |-> n, cut |-> j, gap |-> gap,
         edges |-> EdgesFrom(SubSeq(Sent(t, FALSE), 1, j), 1, INTER_BURST_US)
                   \o EdgesFrom(rest, 1, gap - rest[1])]

Gaps == {GAP_US, GAP_US + 1}

GapWires ==
    {GapWireOf(w[1], w[2], w[3], w[4], w[5]) :
        w \in SampleTeams \X (1..(FRAME_LEN - 1)) \X Gaps \X IR_RX_GPIOS
              \X {-1, 2}}

\* The own team id is whatever the last command set it to.
OwnTeams == {1, 165}

InitIR ==
    /\ \E own \in OwnTeams : InitSession([InitState EXCEPT !.team_id = own])
    /\ threads = [k \in 1..MaxThreads |-> NoThread]
    /\ tx = NoTx
    /\ rx = [g \in IR_RX_GPIOS |-> NewReceiver]
    /\ wire \in Wires
    /\ pending = NoEdge
    /\ net = NoNet

InitBurst ==
    /\ InitSession(InitState)
    /\ threads = [k \in 1..MaxThreads |-> NoThread]
    /\ tx = NoTx
    /\ rx = [g \in IR_RX_GPIOS |-> NewReceiver]
    /\ wire \in BurstWires
    /\ pending = NoEdge
    /\ net = NoNet

InitGap ==
    /\ InitSession(InitState)
    /\ threads = [k \in 1..MaxThreads |-> NoThread]
    /\ tx = NoTx
    /\ rx = [g \in IR_RX_GPIOS |-> NewReceiver]
    /\ wire \in GapWires
    /\ pending = NoEdge
    /\ net = NoNet

----------------------------------------------------------------------------
(* Specifications *)

Attackers == {1, 2}

\* The session: clock, ticks, commands, hits and shutdown.
NextSession ==
    \/ Advance
    \/ Tick
    \/ \E m \in SessionMsgs : Datagram(m)
    \/ DatagramGarbage
    \/ \E a \in Attackers : HitEvent(a)
    \/ HitStop
    \/ Shutdown

Next == NextSession

Spec == Init /\ [][Next]_vars

\* Firing: commands with fire set, the fire threads, hits, ticks and
\* shutdown at one instant of the clock.
TickFire == TickNow \/ TickTimer \/ TickDecide \/ TickStop \/ TickStandby
            \/ TickDrive

NextFire ==
    \/ TickFire
    \/ \E m \in FireMsgs : Datagram(m)
    \/ \E k \in 1..MaxThreads : FireStart(k)
    \/ \E k \in 1..MaxThreads : FireBurst(k)
    \/ HitEvent(1)
    \/ HitStop
    \/ Shutdown

SpecFire == Init /\ [][NextFire]_vars

\* Firing while driving: fire commands, the fire threads and the ticks.
NextFireTick ==
    \/ TickNow
    \/ TickTimer
    \/ TickDecide
    \/ TickStop
    \/ TickDrive
    \/ \E m \in {FireMsg, EstopMsg} : Datagram(m)
    \/ \E k \in 1..MaxThreads : FireStart(k)
    \/ \E k \in 1..MaxThreads : FireBurst(k)

SpecFireTick == Init /\ [][NextFireTick]_vars

\* Reception: one frame reaches a receiver pin edge by edge.
NextIR ==
    \/ EdgeArrives
    \/ EdgeCallback
    \/ HitStop

SpecIR == InitIR /\ [][NextIR]_vars

\* Reception of a frame with one burst of any duration.
SpecBurst == InitBurst /\ [][NextIR]_vars

\* Reception of bursts with a pause of about 100 ms among them.
SpecGap == InitGap /\ [][NextIR]_vars

\* The command handler: commands with some or all fields, payloads that are
\* not JSON, hits (also while the handler runs) and ticks at one instant of
\* the clock, before any fire thread started is scheduled.
NextCmd ==
    \/ TickFire
    \/ \E m \in CmdMsgs : Datagram(m)
    \/ \E m \in CmdMsgs, a \in Attackers, k \in 1..3 :
          DatagramRacingHit(m, a, k)
    \/ DatagramGarbage
    \/ \E a \in Attackers : HitEvent(a)
    \/ HitStop

SpecCmd == Init /\ [][NextCmd]_vars

\* Driving: drive commands with live input and the ticks that apply them.
NextDrive ==
    \/ \E m \in KinMsgs : Datagram(m)
    \/ TickNow
    \/ TickTimer
    \/ TickDecide
    \/ TickDrive

SpecDrive == Init /\ [][NextDrive]_vars

\* The life of the process: start, commands and ticks, a GPIO error, an
\* interrupt.
NextLife ==
    \/ StartUp
    \/ StartFail
    \/ Advance
    \/ TickFire
    \/ \E m \in SessionMsgs : Datagram(m)
    \/ TickFault
    \/ Shutdown

SpecLife == InitStart /\ [][NextLife]_vars

\* The duty mapping: ticks that drive one cached command.
NextDuty ==
    \/ TickNow
    \/ TickTimer
    \/ TickDecide
    \/ TickDrive

SpecDuty == InitDuty /\ [][NextDuty]_vars

----------------------------------------------------------------------------
(* Properties of the session, checked under Spec *)

\* a step in which the tick passes lines 421-426
Decides == tick_pc = "decide" /\ tick_pc' # "decide"
\* a step in which the tick reaches its asyncio.sleep
Completes == tick_pc # "sleep" /\ tick_pc' = "sleep"

\* C1: a tick that evaluates its motor logic while the robot is hit-disabled
\* takes the stop branch, and the stop branch leaves all four motors at duty
\* 0 with both direction pins low, whatever the cached command, estop and
\* standby flag; so after any tick begun after the hit all motors are zero;
\* and a hit that is registered opens a window of HIT_DISABLE_TIME.
C1_HitTickStopsMotors ==
    /\ [](tick_pc = "sleep" /\ laser.is_hit /\ tick_now > laser.hit_time
            => AllStopped)
    /\ [][Decides /\ laser.is_hit => tick_pc' = "stop"]_vars
    /\ [][tick_pc = "stop" /\ Completes => AllStopped']_vars
    /\ [][~laser.is_hit /\ laser.is_hit'
            => laser.time_remaining' = HIT_DISABLE_TIME]_vars

\* a robot hit while driving, with a live nonzero command, after its next tick
C1_Witness ==
    /\ running /\ tick_pc = "sleep"
    /\ laser.is_hit /\ tick_now > laser.hit_time
    /\ laser.time_remaining < HIT_DISABLE_TIME
    /\ state.vx # 0 /\ ~state.estop /\ ~in_standby
    /\ tick_now - last_cmd_time <= COMMAND_TIMEOUT_S
    /\ AllStopped

\* the tick that finds now - hit_time >= HIT_DISABLE_TIME clears the hit
RespawnClearsHit ==
    [][tick_pc = "timer" /\ tick_pc' # "timer" /\ laser.is_hit
         /\ tick_now - laser.hit_time >= HIT_DISABLE_TIME
            => ~laser.is_hit' /\ respawned']_vars

\* C2 (as claimed): once the tick that respawns has completed, and no new hit
\* has arrived, the robot is Driving: is_hit false, standby flag cleared,
\* STBY lines high.
C2_RespawnIsDriving ==
    /\ RespawnClearsHit
    /\ [][Completes /\ respawned /\ ~laser.is_hit'
            => ~in_standby' /\ StbyHigh']_vars

\* C2 (amended): once the tick that respawns has completed, and no new hit
\* has arrived, is_hit is false, and the standby flag is cleared and the STBY
\* lines are high unless the standby-entry rule held in that same tick
\* (estop false, command not timed out, last input older than the power-save
\* timeout): then the flag is set, the STBY lines are low and the motors
\* stopped.
C2_RespawnDrivingOrStandby ==
    /\ RespawnClearsHit
    /\ [][Completes /\ respawned /\ ~laser.is_hit'
            => IF /\ ~state.estop
                  /\ tick_now - last_cmd_time <= COMMAND_TIMEOUT_S
                  /\ tick_now - last_input_time > POWER_SAVE_TIMEOUT_S
               THEN in_standby' /\ StbyLow' /\ AllStopped'
               ELSE ~in_standby' /\ StbyHigh']_vars

\* a robot that has respawned and is driving again
C2_Witness ==
    /\ running /\ tick_pc = "sleep" /\ respawned
    /\ ~laser.is_hit /\ ~in_standby /\ StbyHigh
    /\ ~AllStopped

\* C6: a tick that evaluates its motor logic more than COMMAND_TIMEOUT_S
\* after the last command takes the stop branch and leaves all motors
\* stopped, so after such a tick the motors are zero whatever the cached
\* command.
C6_CommandTimeoutStops ==
    /\ [](tick_pc = "sleep" /\ tick_now - last_cmd_time > COMMAND_TIMEOUT_S
            => AllStopped)
    /\ [][Decides /\ tick_now - last_cmd_time > COMMAND_TIMEOUT_S
            => tick_pc' = "stop"]_vars
    /\ [][tick_pc = "stop" /\ Completes => AllStopped']_vars

\* the command has timed out with a nonzero cached command and nothing else
\* that stops the motors
C6_Witness ==
    /\ running /\ tick_pc = "sleep"
    /\ tick_now - last_cmd_time > COMMAND_TIMEOUT_S
    /\ state.vx # 0 /\ state.speed # 0 /\ ~state.estop
    /\ ~laser.is_hit /\ ~in_standby /\ StbyHigh
    /\ AllStopped

\* C10 (as claimed): a tick that evaluates its rules in Driving with the last
\* input older than POWER_SAVE_TIMEOUT_S enters Standby, and entering Standby
\* stops the motors and drives both STBY pins low.
C10_StandbyEntry ==
    /\ [][Decides /\ ~laser.is_hit /\ ~in_standby
            /\ tick_now - last_input_time > POWER_SAVE_TIMEOUT_S
            => tick_pc' = "standby"]_vars
    /\ [][tick_pc = "standby" /\ Completes
            => in_standby' /\ AllStopped' /\ StbyLow']_vars

\* C13: in a tick of a robot that is not hit and has not just respawned,
\* with estop set or the command older than 0.8 s, the decision is the stop
\* branch, which zeroes the four motors; no step of that tick changes the
\* standby flag, the hit record or the STBY pins.
C13_SafetyStopKeepsState ==
    [][(/\ tick_pc' # tick_pc
        /\ ~laser.is_hit /\ ~respawned'
        /\ (state.estop \/ tick_now' - last_cmd_time > COMMAND_TIMEOUT_S))
         => /\ in_standby' = in_standby /\ stby' = stby /\ laser' = laser
            /\ (tick_pc = "decide" => tick_pc' = "stop")
            /\ (tick_pc = "stop" => AllStopped')]_vars

\* a tick has run to its end at this instant in Standby with the command
\* timed out: the robot is still in Standby
C13_Witness ==
    /\ running /\ tick_pc = "sleep" /\ tick_now = clock /\ clock > StartTime
    /\ tick_now - last_cmd_time > COMMAND_TIMEOUT_S
    /\ ~laser.is_hit /\ ~respawned /\ cb_pc = "idle"
    /\ in_standby /\ StbyLow /\ AllStopped

\* C20: whatever the attacking team, the robot's own included, a hit is
\* registered with hit_time now, time_remaining HIT_DISABLE_TIME and
\* is_self_hit telling whether the attacker is the own team; on_laser_hit
\* goes on to stop the motors and drive STBY low; every tick that decides
\* while the robot is hit stops the motors; and the hit is cleared only by
\* a tick at least HIT_DISABLE_TIME after hit_time.
C20_SelfHitDisables ==
    /\ [][~laser.is_hit /\ laser.is_hit'
            => /\ \E a \in TeamIds :
                     laser' = [is_hit |-> TRUE, hit_by_team |-> a,
                               hit_time |-> clock,
                               time_remaining |-> HIT_DISABLE_TIME,
                               is_self_hit |-> (a = state.team_id)]
               /\ cb_pc' = "stop"]_vars
    /\ [][cb_pc = "stop" /\ cb_pc' = "idle" => AllStopped' /\ StbyLow']_vars
    /\ [][Decides /\ laser.is_hit /\ laser.is_self_hit
            => tick_pc' = "stop"]_vars
    /\ [][laser.is_hit /\ ~laser.is_hit'
            => tick_now - laser.hit_time >= HIT_DISABLE_TIME]_vars

\* a tick inside the window of a self-hit has left the motors stopped in
\* spite of a live nonzero drive command
C20_Witness ==
    /\ running /\ tick_pc = "sleep" /\ cb_pc = "idle"
    /\ laser.is_hit /\ laser.is_self_hit
    /\ laser.hit_by_team = state.team_id
    /\ tick_now > laser.hit_time
    /\ laser.time_remaining < HIT_DISABLE_TIME /\ laser.time_remaining > 0
    /\ state.vx # 0 /\ ~state.estop
    /\ tick_now - last_cmd_time <= COMMAND_TIMEOUT_S
    /\ AllStopped /\ StbyLow

----------------------------------------------------------------------------
(* Properties of firing and shutdown, checked under SpecFire *)

Started(k) == threads[k].pc = "none" /\ threads'[k].pc # "none"

Begins(k) == threads[k].pc # "send" /\ threads'[k].pc = "send"

\* C7: while the robot is hit-disabled no step starts a fire thread and no
\* thread begins to send, so a command with fire set starts no transmission,
\* and the step that takes in a command changes neither the fire threads in
\* flight nor the transmit pin.
C7_FireSuppressed ==
    [][laser.is_hit
         => /\ \A k \in 1..MaxThreads : ~Started(k) /\ ~Begins(k)
            /\ (state' # state => threads' = threads /\ tx' = tx)]_vars

\* fire is set in the command cache of a hit-disabled robot while the only
\* fire thread is one that is half way through its frame
C7_Witness ==
    /\ running /\ laser.is_hit /\ cb_pc = "idle" /\ state.fire
    /\ threads[1].pc = "send" /\ threads[1].i = 5 /\ tx.by = 1
    /\ \A k \in 2..MaxThreads : threads[k] = NoThread

\* C8 (as claimed): at most one transmission is in flight, and no fire
\* thread is started while one is.
C8_OneTransmission ==
    /\ [](Cardinality(InFlight) <= 1)
    /\ [][InFlight # {} => \A k \in 1..MaxThreads : ~Started(k)]_vars

\* C9: once cleanup() has run, all four motors are stopped and both STBY
\* pins are low, and stay so whatever the callback thread and the fire
\* threads still do.
C9_ShutdownStopsAll == ~running => AllStopped /\ StbyLow

\* shut down between the tick's decision to drive and its motor writes,
\* while a frame is being transmitted
C9_Witness ==
    /\ ~running /\ tick_pc = "drive"
    /\ \E k \in 1..MaxThreads : threads[k].pc = "send" /\ threads[k].i > 0
    /\ AllStopped /\ StbyLow

----------------------------------------------------------------------------
(* Properties of reception, checked under SpecIR *)

\* C3: in a hit-disabled robot no step of the callback thread changes the
\* hit record: hit_time, hit_by_team, is_self_hit and time_remaining stay as
\* the first hit set them when a second valid frame is decoded.
C3_HitWhileDisabledIgnored == [][laser.is_hit => laser' = laser]_vars

\* a second valid frame, of another team, has been decoded 0.2 s after the
\* frame that disabled the robot; the record is still the first one's
C3_Witness ==
    /\ wire.pos = 0 /\ wire.next # -1 /\ wire.next # wire.team
    /\ wire.edges = <<>> /\ pending = NoEdge /\ cb_pc = "idle"
    /\ laser.is_hit /\ laser.hit_by_team = wire.team
    /\ clock - laser.hit_time > GAP_US

\* the bursts a receiver holds once the pending rising edge is measured
Measured ==
    Append(rx[pending.gpio].bursts, pending.tick - rx[pending.gpio].last_tick)

\* C4: a hit is registered only by the callback of a rising edge that
\* completes 10 bursts with bursts 0 and 9 in 2200..2600 and bursts 1..8 in
\* 1400..1800 or 600..1000; a frame with one burst out of tolerance raises no
\* hit, and the only hit seen after it is that of a valid frame that follows.
C4_OnlyValidFramesHit ==
    /\ [][~laser.is_hit /\ laser.is_hit'
            => /\ pending.level = 1
               /\ Len(Measured) = 10
               /\ Measured[1] \in 2200..2600
               /\ Measured[10] \in 2200..2600
               /\ \A i \in 2..9 :
                     Measured[i] \in (1400..1800) \cup (600..1000)]_vars
    /\ [](wire.pos # 0 /\ Abs(wire.dev) > TOLERANCE /\ laser.is_hit
            => /\ wire.next # -1
               /\ wire.edges = <<>>
               /\ laser.hit_by_team = wire.next)

\* a frame with one burst 201 us off has been received entirely: no hit,
\* and the buffer is empty again
C4_Witness ==
    /\ wire.pos # 0 /\ Abs(wire.dev) > TOLERANCE /\ wire.next = -1
    /\ wire.edges = <<>> /\ pending = NoEdge
    /\ rx[wire.pin].bursts = <<>> /\ rx[wire.pin].last_burst_time = clock
    /\ ~laser.is_hit

\* C5: when the ten bursts of send_team_id(t), at their nominal durations
\* or as the carrier loop emits them, have reached a receiver whose buffer
\* was empty, the robot is hit by team t, and is_self_hit tells whether t is
\* the robot's own team id.
C5_RoundTrip ==
    (wire.pos = 0 /\ wire.next = -1 /\ wire.edges = <<>> /\ pending = NoEdge)
    => /\ laser.is_hit
       /\ laser.hit_by_team = wire.team
       /\ laser.is_self_hit = (wire.team = state.team_id)

\* the nominal frame of team 165 has disabled a robot of team 165
C5_Witness ==
    /\ wire.pos = 0 /\ wire.next = -1 /\ ~wire.carrier /\ wire.team = 165
    /\ wire.edges = <<>> /\ pending = NoEdge
    /\ laser.is_hit /\ laser.hit_by_team = 165 /\ laser.is_self_hit

\* the duration of the burst of the wire that was replaced
BurstLen == Sent(wire.team, wire.carrier)[wire.pos] + wire.dev

\* the whole wire has been delivered to the receiver
Consumed == wire.edges = <<>> /\ pending = NoEdge

\* C14: once a frame of team 0 with one burst of d microseconds has been
\* received, the robot is hit iff d is in 2200..2600 when the burst is the
\* start or the end burst; when it is the first bit burst, the robot is hit
\* by team 0 (the burst read as BIT_0) iff d is in 600..1000 and by team 128
\* (read as BIT_1) iff d is in 1400..1800, and is not hit for any other d.
C14_ToleranceBoundary ==
    (Consumed /\ wire.pos # 0 /\ wire.team = 0)
    => /\ wire.pos \in {1, FRAME_LEN}
            => /\ laser.is_hit <=> BurstLen \in 2200..2600
               /\ laser.is_hit => laser.hit_by_team = 0
       /\ wire.pos = 2
            => /\ (laser.is_hit /\ laser.hit_by_team = 0)
                     <=> BurstLen \in 600..1000
               /\ (laser.is_hit /\ laser.hit_by_team = 128)
                     <=> BurstLen \in 1400..1800
               /\ laser.is_hit <=> BurstLen \in (600..1000) \cup (1400..1800)

\* a frame whose first bit burst lasted 1000 us has been received and read
\* as team 0
C14_Witness ==
    /\ Consumed /\ wire.team = 0 /\ wire.pos = 2 /\ BurstLen = 1000
    /\ laser.is_hit /\ laser.hit_by_team = 0

----------------------------------------------------------------------------
(* Properties of the command handler, checked under SpecCmd *)

\* a step in which datagram_received handles a command
Handles == net'.kind = "cmd"
\* the command as merged into `state`: an axis is over 0.05, or estop is set
Over(st) == Abs(st.vx) > 5 \/ Abs(st.vy) > 5 \/ Abs(st.omega) > 5 \/ st.estop

\* C11: a command handled in Standby (standby flag set, robot not hit) whose
\* vx, vy or omega, as merged into the command cache, is over 0.05 in
\* magnitude, or whose estop is set, clears the standby flag and drives
\* both STBY pins high; any other command leaves flag and pins as they were.
C11_StandbyExit ==
    [][Handles /\ in_standby /\ ~laser.is_hit
         => IF Over(state')
            THEN ~in_standby' /\ StbyHigh'
            ELSE in_standby' /\ stby' = stby /\ StbyLow']_vars

\* the command with all three axes at exactly 0.05 has been handled in
\* Standby, and the robot is still there
C11_Witness ==
    /\ net.kind = "cmd" /\ net.msg = <<NearMsg>>
    /\ state.vx = DEADBAND /\ ~state.estop
    /\ in_standby /\ StbyLow /\ ~laser.is_hit

\* C12: while the standby flag is set no tick takes the standby-entry
\* branch again and a command within the deadband with estop false leaves
\* flag, STBY pins and motors alone; the flag is cleared only by a command
\* over the deadband (or with estop), which clears it in that one step, and
\* a command handled with the flag clear writes neither flag nor STBY pins.
C12_StandbyIdempotent ==
    /\ [][Decides /\ in_standby => tick_pc' # "standby"]_vars
    /\ [][Handles /\ in_standby /\ ~Over(state')
            => in_standby' /\ stby' = stby /\ motors' = motors]_vars
    /\ [][in_standby /\ ~in_standby' => Handles /\ Over(state')]_vars
    /\ [][Handles /\ in_standby /\ Over(state') => ~in_standby']_vars
    /\ [][Handles /\ ~in_standby => ~in_standby' /\ stby' = stby]_vars

\* an all-zero command has been handled in Standby, which the robot has
\* not left
C12_Witness ==
    /\ net.kind = "cmd" /\ net.msg = <<IdleMsg>>
    /\ in_standby /\ StbyLow /\ AllStopped /\ ~laser.is_hit
    /\ tick_now - last_input_time > POWER_SAVE_TIMEOUT_S

\* C17: a payload that is not JSON changes none of the command fields,
\* last_cmd_time, last_input_time, the standby flag and the STBY pins,
\* starts no fire thread and is not answered.
C17_GarbageDropped ==
    [][net'.kind = "garbage"
         => /\ state' = state
            /\ last_cmd_time' = last_cmd_time
            /\ last_input_time' = last_input_time
            /\ in_standby' = in_standby /\ stby' = stby
            /\ threads' = threads
            /\ net'.sent = <<>>]_vars

\* garbage has been taken in by a robot that is not hit and whose cached
\* command has fire set: one fire thread exists, from the command itself
C17_Witness ==
    /\ net.kind = "garbage" /\ net.sent = <<>>
    /\ state.fire /\ ~laser.is_hit
    /\ threads[1].pc = "start"
    /\ \A k \in 2..MaxThreads : threads[k] = NoThread

\* C18: after a command is handled, each of vx, vy, omega, team_id is the
\* message's value if the message has the field and the previous value if
\* not, speed likewise (clamped to 0..1), and estop and fire are the
\* message's value if present and false if not.
C18_MissingFields ==
    [][Handles
         => LET m == net'.msg[1]
            IN  /\ \A f \in {"vx", "vy", "omega", "team_id"} :
                      state'[f] = IF f \in DOMAIN m THEN m[f] ELSE state[f]
                /\ state'.speed = IF "speed" \in DOMAIN m
                                  THEN Max2(0, Min2(100, m.speed))
                                  ELSE state.speed
                /\ \A f \in {"estop", "fire"} :
                      state'[f] = IF f \in DOMAIN m THEN m[f] ELSE FALSE]_vars

\* a message with estop alone has been handled: vx, speed and team_id
\* still have the values earlier messages gave them, fire is false
C18_Witness ==
    /\ net.kind = "cmd" /\ net.msg = <<EstopMsg>>
    /\ state.estop /\ ~state.fire
    /\ state.vx = DEADBAND + 1 /\ state.speed = 50 /\ state.team_id = 2

\* C19 (as claimed): a handled command is answered with exactly one
\* telemetry message whose fields are those of the robot's state, as it is
\* when the handler starts to build the reply or as it is when it sends it.
C19_TelemetryIsState ==
    [][Handles
         => /\ Len(net'.sent) = 1
            /\ \E l \in {laser, laser'} :
                  net'.sent[1] =
                      [team_id |-> state'.team_id, is_hit |-> l.is_hit,
                       hit_by_team |-> l.hit_by_team,
                       time_remaining |-> l.time_remaining,
                       is_self_hit |-> l.is_self_hit]]_vars

----------------------------------------------------------------------------
(* Properties of the drive kinematics, checked under SpecDrive *)

\* a step in which the tick runs drive_mecanum
Drives == tick_pc = "drive" /\ tick_pc' = "sleep"

Forward == [pwm |-> 0, en |-> 1, in1 |-> 1, in2 |-> 0]
Reverse == [pwm |-> 0, en |-> 1, in1 |-> 0, in2 |-> 1]

\* C15: when the tick drives with (vx, vy, omega, speed) = (1, 0, 0, 1)
\* the four wheel values are equal and positive and the four motors are
\* driven alike, forward; with (0, 0, 1, 1) fl = rl is positive and fr = rr
\* is negative, the left motors forward and the right ones in reverse; with
\* (0, 0, 0, x) every wheel value is zero and every motor stopped.
C15_KinematicsSymmetry ==
    [][Drives
         => LET w == Wheels(state.vx, state.vy, state.omega)
                axes == <<state.vx, state.vy, state.omega, state.speed>>
            IN  /\ axes = <<100, 0, 0, 100>>
                     => /\ \A m \in MotorNames : w[m] = w.A /\ w[m] > 0
                        /\ \A m \in MotorNames : motors'[m] = Forward
                /\ axes = <<0, 0, 100, 100>>
                     => /\ w.A = w.C /\ w.A > 0 /\ w.B = w.D /\ w.B < 0
                        /\ motors'.A = Forward /\ motors'.C = Forward
                        /\ motors'.B = Reverse /\ motors'.D = Reverse
                /\ (state.vx = 0 /\ state.vy = 0 /\ state.omega = 0)
                     => /\ \A m \in MotorNames : w[m] * state.speed = 0
                        /\ \A m \in MotorNames : motors'[m] = Stopped]_vars

\* a tick has driven the pure rotation (0, 0, 1, 1)
C15_Witness ==
    /\ tick_pc = "sleep" /\ net = NoNet
    /\ state.vx = 0 /\ state.vy = 0 /\ state.omega = 100 /\ state.speed = 100
    /\ motors.A = Forward /\ motors.C = Forward
    /\ motors.B = Reverse /\ motors.D = Reverse

\* the motor outputs that drive_mecanum derives from raw wheel values
OutputsOf(raw, max_speed) ==
    LET scale == Max2(Max2(100, Abs(raw.A)),
                      Max2(Max2(Abs(raw.B), Abs(raw.C)), Abs(raw.D)))
    IN  [m \in MotorNames |-> apply_motor(m, raw[m] * max_speed, scale * 100)]

\* C16 (as claimed): the raw wheel values are fl = vy + vx + omega,
\* fr = -vy + vx - omega, rl = -vy + vx + omega, rr = vy - vx - omega, and
\* the motors are driven from them.
C16_WheelsAsClaimed ==
    [][Drives
         => LET vx == state.vx  vy == state.vy  omega == state.omega
                raw == [A |-> vy + vx + omega, B |-> -vy + vx - omega,
                        C |-> -vy + vx + omega, D |-> vy - vx - omega]
            IN  /\ Wheels(vx, vy, omega) = raw
                /\ motors' = OutputsOf(raw, state.speed)]_vars

\* C16 (amended): the raw wheel values are fl = vy + vx + omega,
\* fr = -vy + vx - omega, rl = -vy + vx + omega, rr = vy + vx - omega, and
\* the motors are driven from them.
C16_WheelsAsCoded ==
    [][Drives
         => LET vx == state.vx  vy == state.vy  omega == state.omega
                raw == [A |-> vy + vx + omega, B |-> -vy + vx - omega,
                        C |-> -vy + vx + omega, D |-> vy + vx - omega]
            IN  /\ Wheels(vx, vy, omega) = raw
                /\ motors' = OutputsOf(raw, state.speed)]_vars

\* a tick has driven (1, 1, 0, 1): front left and rear right full forward,
\* the other two stopped
C16_Witness ==
    /\ tick_pc = "sleep" /\ net = NoNet
    /\ state.vx = 100 /\ state.vy = 100 /\ state.omega = 0
    /\ state.speed = 100
    /\ motors.A = Forward /\ motors.D = Forward
    /\ motors.B = Stopped /\ motors.C = Stopped

----------------------------------------------------------------------------
(* Properties of the threads taken together *)

\* a step of the control tick
TickStep == tick_pc' # tick_pc

\* a step in which a fire thread emits a burst
Emits == \E k \in 1..MaxThreads : threads[k].pc = "send" /\ threads'[k] # threads[k]

\* C21: while is_hit is true no step commands a motor with a nonzero
\* output and no step emits an IR burst on the transmit pin.
C21_DisabledNeitherDrivesNorFires ==
    [][(laser.is_hit /\ laser'.is_hit)
         => /\ (motors' # motors => AllStopped')
            /\ ~Emits]_vars

\* C22: the hit record and the standby flag change only in steps of the
\* control tick.
C22_TickIsSingleWriter ==
    [][(laser' # laser \/ in_standby' # in_standby) => TickStep]_vars

\* the steps of the control tick
NextTick == TickNow \/ TickTimer \/ TickDecide \/ TickStop \/ TickDrive

\* C24: while a fire thread is transmitting, the control tick can take its
\* next step, and the steps it takes leave the transmission alone.
C24_TickNeverWaitsForFire ==
    /\ [](running /\ InFlight # {} => ENABLED NextTick)
    /\ [][TickStep => threads' = threads /\ tx' = tx]_vars

\* a tick is about to drive the motors while thread 1 is half way through
\* its frame
C24_Witness ==
    /\ threads[1].pc = "send" /\ threads[1].i = 5 /\ tx.by = 1
    /\ running /\ tick_pc = "drive" /\ state.vx = 100

----------------------------------------------------------------------------
(* Properties of the drive path, checked under Spec *)

\* C26: a datagram overwrites vx, vy, omega and speed with the values it
\* carries and nothing else changes them; a tick that finds the robot not
\* hit, estop false, the command at most 0.8 s old, the input at most 10 s
\* old and the standby flag clear drives, and the outputs it applies are the
\* kinematics of the values the command cache holds then.
C26_LastWriteWins ==
    /\ [][Handles
            => \A f \in {"vx", "vy", "omega", "speed"} :
                  state'[f] = IF f \in DOMAIN net'.msg[1]
                              THEN net'.msg[1][f] ELSE state[f]]_vars
    /\ [][~Handles => state' = state]_vars
    /\ [][(/\ Decides
           /\ ~laser.is_hit /\ ~state.estop /\ ~in_standby
           /\ tick_now - last_cmd_time <= COMMAND_TIMEOUT_S
           /\ tick_now - last_input_time <= POWER_SAVE_TIMEOUT_S)
            => tick_pc' = "drive"]_vars
    /\ [][Drives
            => motors' = OutputsOf(Wheels(state.vx, state.vy, state.omega),
                                   state.speed)]_vars

\* a tick has driven the command (1, 0, 0.5, 1) received after the start:
\* left wheels fully on, right wheels at a third
C26_Witness ==
    /\ tick_pc = "sleep" /\ net = NoNet /\ last_cmd_time > StartTime
    /\ state.vx = 100 /\ state.vy = 0 /\ state.omega = 50
    /\ state.speed = 100
    /\ motors.A = Forward /\ motors.C = Forward
    /\ motors.B.pwm = 84 /\ motors.D.pwm = 84 /\ motors.B.in1 = 1

----------------------------------------------------------------------------
(* Properties of the normalization, checked under SpecDrive *)

\* the largest magnitude among the raw wheel values w
Largest(w) ==
    CHOOSE x \in {Abs(w[m]) : m \in MotorNames} :
        \A m \in MotorNames : Abs(w[m]) <= x

\* C28: when the tick drives with speed scale s in 0..1, the motors are
\* driven from the values w[m] * s / max(1, largest |w|), w the raw wheel
\* values; each of these has magnitude at most s, hence at most 1, and they
\* are in the same ratios as the raw values.
C28_Normalization ==
    [][Drives
         => LET w == Wheels(state.vx, state.vy, state.omega)
                s == state.speed
                den == (IF Largest(w) > 100 THEN Largest(w) ELSE 100) * 100
                num == [m \in MotorNames |-> w[m] * s]
            IN  /\ s \in 0..100
                /\ motors' = [m \in MotorNames |-> apply_motor(m, num[m], den)]
                /\ \A m \in MotorNames :
                      /\ Abs(num[m]) * 100 <= s * den
                      /\ Abs(num[m]) <= den
                /\ \A m, k \in MotorNames : num[m] * w[k] = num[k] * w[m]]_vars

\* a tick has driven (1, 1, 0) at half speed: raw values 2, 0, 0, 2 become
\* 0.5, 0, 0, 0.5
C28_Witness ==
    /\ tick_pc = "sleep" /\ net = NoNet
    /\ state.vx = 100 /\ state.vy = 100 /\ state.omega = 0
    /\ state.speed = 50
    /\ motors.A = [pwm |-> 127, en |-> 0, in1 |-> 1, in2 |-> 0]
    /\ motors.D = motors.A
    /\ motors.B = Stopped /\ motors.C = Stopped

----------------------------------------------------------------------------
(* Properties of the duty mapping, checked under SpecDuty *)

\* C27: when the tick drives, the output of each motor follows from the
\* magnitude c / den of its wheel value after clamping to [-1, 1]: below
\* 1e-3 the motor is stopped (duty 0, both direction pins low); otherwise
\* the direction pins follow the sign, and with pct = int(100 * c / den) the
\* enable pin is fully on without PWM when pct >= 80, and else the PWM duty
\* is max(30, pct) percent of 255.
C27_DutyMapping ==
    [][Drives
         => \A mot \in MotorNames :
               LET w == Wheels(state.vx, state.vy, state.omega)
                   den == (IF Largest(w) > 100 THEN Largest(w) ELSE 100) * 100
                   num == w[mot] * state.speed
                   c == IF Abs(num) > den THEN den ELSE Abs(num)
                   pct == (c * 100) \div den
                   out == motors'[mot]
               IN  IF c * 1000 < den
                   THEN out = [pwm |-> 0, en |-> 0, in1 |-> 0, in2 |-> 0]
                   ELSE /\ out.in1 = (IF num > 0 THEN 1 ELSE 0)
                        /\ out.in2 = 1 - out.in1
                        /\ IF pct >= 80
                           THEN out.en = 1 /\ out.pwm = 0
                           ELSE /\ out.en = 0
                                /\ out.pwm = ((IF pct < 30 THEN 30 ELSE pct)
                                                 * 255) \div 100
                                /\ out.pwm \in 76..201]_vars

\* a tick has driven a wheel value of exactly 0.001: the motor runs forward
\* at the minimum duty
C27_Witness ==
    /\ tick_pc = "sleep"
    /\ state.vx = 1 /\ state.speed = 10
    /\ motors.A = [pwm |-> 76, en |-> 0, in1 |-> 1, in2 |-> 0]

----------------------------------------------------------------------------
(* Properties of the burst buffer, checked under SpecGap *)

\* a step in which edge_callback measures a burst
Measures ==
    /\ pending # NoEdge /\ pending' = NoEdge
    /\ pending.level = 1 /\ rx[pending.gpio].last_tick # 0

\* the burst measured by that step
Width == pending.tick - rx[pending.gpio].last_tick

\* that step comes more than 100 ms after the receiver's previous burst
AfterGap == clock - rx[pending.gpio].last_burst_time > GAP_US

\* C29: a burst measured more than 100 ms after the previous burst of the
\* same receiver becomes the only element of the buffer and raises no hit;
\* a hit seen on a wire with such a pause is that of the whole frame that
\* followed the pause.
C29_GapRule ==
    /\ [][(Measures /\ AfterGap)
            => /\ rx'[pending.gpio].bursts = <<Width>>
               /\ laser' = laser]_vars
    /\ [](wire.gap > GAP_US /\ laser.is_hit
            => wire.next # -1 /\ laser.hit_by_team = wire.next)

\* a frame of team 165 split by a pause of 100.001 ms after its fifth burst
\* has been received: no hit, and the buffer holds the five bursts that
\* came after the pause
C29_Witness ==
    /\ Consumed /\ wire.team = 165 /\ wire.next = -1
    /\ wire.cut = 5 /\ wire.gap = GAP_US + 1
    /\ ~laser.is_hit
    /\ rx[wire.pin].bursts = SubSeq(Sent(165, FALSE), 6, FRAME_LEN)

\* the buffer as edge_callback sees it once the measured burst is appended
Filled ==
    Append(IF AfterGap THEN <<>> ELSE rx[pending.gpio].bursts, Width)

\* C30: a receiver's buffer never holds more than 9 bursts between
\* callbacks; the callback that brings it to 10 bursts empties it, and
\* registers a hit if the 10 bursts decode and the robot is not already hit;
\* a callback that leaves it shorter registers nothing.
C30_CompletionRule ==
    /\ [](\A g \in IR_RX_GPIOS : Len(rx[g].bursts) \in 0..9)
    /\ [][(Measures /\ Len(Filled) = FRAME_LEN)
            => /\ rx'[pending.gpio].bursts = <<>>
               /\ IF FrameValid(Filled) /\ ~laser.is_hit
                  THEN laser'.is_hit /\ laser'.hit_by_team = DecodeTeam(Filled)
                  ELSE laser' = laser]_vars
    /\ [][(Measures /\ Len(Filled) # FRAME_LEN)
            => rx'[pending.gpio].bursts = Filled /\ laser' = laser]_vars

\* three bursts of team 0 and, within 100 ms, a whole frame of team 2 have
\* been received: the first ten bursts failed to decode, and the buffer
\* holds the last three
C30_Witness ==
    /\ Consumed /\ wire.team = 0 /\ wire.next = 2
    /\ wire.cut = 3 /\ wire.gap = GAP_US
    /\ ~laser.is_hit
    /\ rx[wire.pin].bursts = SubSeq(Sent(2, FALSE), 8, FRAME_LEN)

----------------------------------------------------------------------------
(* Properties of the process, checked under SpecLife *)

\* C23: control_loop stops running only when the process is interrupted.
C23_TickNeverFails ==
    [][(running /\ ~running') => proc'.pc = "interrupted"]_vars

\* C25: while the driver is not connected the control loop is not running,
\* no tick has run, no endpoint is open and no receiver callback is
\* registered; the process is still starting or has exited, and then with a
\* nonzero status.
C25_NoDriverNoLoop ==
    /\ [](~proc.connected /\ proc.pc \in {"boot", "refused"}
            => /\ ~running
               /\ tick_pc = "sleep" /\ tick_now = 0
               /\ ~proc.udp
               /\ proc.callbacks = {})
    /\ [](proc.pc = "refused" => proc.status # 0 /\ proc.status # -1)
    /\ [][(proc.pc = "boot" /\ ~proc.connected /\ proc' # proc)
            => proc'.pc = "refused"]_vars

\* the process has exited with status 1 without the driver
C25_Witness ==
    /\ proc.pc = "refused" /\ ~proc.connected /\ proc.status = 1
    /\ ~running /\ last_cmd_time = 0

----------------------------------------------------------------------------
(* Properties of the carrier loop, checked under SpecIR *)

\* the three nominal burst durations of the protocol
Symbols == {BIT_0_BURST, BIT_1_BURST, START_END_BURST}

\* the nominal duration of the burst that the pending rising edge ends, on a
\* wire that carries one frame into an empty buffer
NominalBurst == FrameOf(wire.team)[Len(rx[pending.gpio].bursts) + 1]

\* C39: with a carrier period of 26 us each burst emitted for a nominal
\* duration d of 800, 1600 or 2400 us lasts (d \div 26) * 26 us, which is
\* within TOLERANCE of d and of no other nominal duration, and d \div 26
\* fits the two bytes of the loop counter; the ten bursts so emitted decode
\* to the team that sent them.
C39_CarrierQuantization ==
    /\ [][(Measures /\ wire.carrier)
            => /\ NominalBurst \in Symbols
               /\ Width = (NominalBurst \div 26) * 26
               /\ CARRIER_PERIOD_US = 26
               /\ NominalBurst \div CARRIER_PERIOD_US < 65536
               /\ \A s \in Symbols :
                     (Abs(Width - s) <= TOLERANCE) <=> (s = NominalBurst)]_vars
    /\ [][(Measures /\ wire.carrier /\ Len(Filled) = FRAME_LEN)
            => FrameValid(Filled) /\ DecodeTeam(Filled) = wire.team]_vars

\* the frame of team 165 as the carrier loop emits it has been received and
\* has disabled the robot
C39_Witness ==
    /\ Consumed /\ wire.carrier /\ wire.team = 165
    /\ laser.is_hit /\ laser.hit_by_team = 165
    /\ CarrierUs(START_END_BURST) = 2392
    /\ CarrierUs(BIT_1_BURST) = 1586
    /\ CarrierUs(BIT_0_BURST) = 780

----------------------------------------------------------------------------
(* Properties of the enable pins and of the hit record, checked under Spec *)

\* C35: once on_laser_hit has run, and for as long as the robot is
\* hit-disabled, both STBY pins are low, whatever command is received and
\* however the hit handler interleaves with the tick.
C35_DisabledStaysDeEnergized ==
    (laser.is_hit /\ cb_pc = "idle") => StbyLow

\* C36: a tick that ends with the robot neither hit-disabled nor flagged in
\* standby ends with both STBY pins high, and a drive step that ends so has
\* applied its wheel commands to an energized driver.
C36_DrivingIsEnergized ==
    /\ [][(Completes /\ running' /\ ~laser'.is_hit /\ ~in_standby')
            => StbyHigh']_vars
    /\ [][(tick_pc = "drive" /\ tick_pc' = "sleep" /\ ~laser'.is_hit)
            => StbyHigh /\ StbyHigh']_vars

\* a tick has ended after a respawn with the robot driving: a command is
\* fresh, the wheels turn and both drivers are enabled
C36_Witness ==
    /\ running /\ tick_pc = "sleep" /\ respawned
    /\ ~laser.is_hit /\ ~in_standby
    /\ ~AllStopped /\ StbyHigh

C38_HitRecordConsistent ==
    /\ ~laser.is_hit
         => /\ laser.hit_by_team = 0
            /\ laser.time_remaining = 0
            /\ ~laser.is_self_hit
    /\ laser.is_hit => laser.time_remaining \in 0..HIT_DISABLE_TIME

----------------------------------------------------------------------------
(* The hit-disable window with the loop and the clock running *)

\* The robot in its control loop with frames arriving: asyncio wakes the
\* tick after each sleep, the callback thread finishes a handler it began,
\* and time passes.
NextRespawn ==
    \/ Advance
    \/ TickNow \/ TickTimer \/ TickRespawn \/ TickDecide \/ TickStop
    \/ TickDrive
    \/ \E a \in Attackers : HitEvent(a)
    \/ HitStop

TickRuns ==
    TickNow \/ TickTimer \/ TickRespawn \/ TickDecide \/ TickStop \/ TickDrive

SpecRespawn ==
    /\ Init
    /\ [][NextRespawn]_vars
    /\ WF_vars(TickRuns)
    /\ WF_vars(HitStop)
    /\ WF_vars(Advance)

\* the last instant the clock reaches
Horizon == CHOOSE t \in Instants : \A u \in Instants : u <= t

\* C34: a hit-disabled robot whose 10 s end within the clock's range is
\* eventually not hit-disabled; frames decoded meanwhile leave hit_time as
\* the first hit set it; the tick whose timer step finds 10 s elapsed since
\* hit_time clears the record, and nothing else does.
C34_EveryEpisodeEnds ==
    /\ (laser.is_hit /\ laser.hit_time + HIT_DISABLE_TIME <= Horizon)
          ~> ~laser.is_hit
    /\ [][(laser.is_hit /\ laser'.is_hit)
            => laser'.hit_time = laser.hit_time]_vars
    /\ [][(laser.is_hit /\ tick_pc = "timer" /\ tick_pc' # "timer"
           /\ tick_now - laser.hit_time >= HIT_DISABLE_TIME)
            => ~laser'.is_hit]_vars
    /\ [][(laser.is_hit /\ ~laser'.is_hit)
            => /\ tick_pc = "timer" /\ tick_pc' = "respawn"
               /\ tick_now - laser.hit_time >= HIT_DISABLE_TIME]_vars

\* the robot was hit at the first instant, frames kept arriving, and the
\* tick that read the clock 10 s later has respawned it
C34_Witness ==
    /\ respawned /\ ~laser.is_hit
    /\ tick_pc = "respawn"
    /\ tick_now = StartTime + HIT_DISABLE_TIME

----------------------------------------------------------------------------
(* Datagrams that parse as JSON and cannot be applied *)

\* The order in which lines 354-365 convert and store the fields of the
\* payload; last_input_time comes after last_cmd_time is stamped.
FieldOrder ==
    <<"vx", "vy", "omega", "speed", "estop", "fire", "team_id",
      "last_input_time">>

Pos(f) == CHOOSE i \in 1..Len(FieldOrder) : FieldOrder[i] = f

\* The fields whose conversion can raise: float() and int() reject a JSON
\* string or null, bool() accepts every value.
BadFields == {"vx", "vy", "omega", "speed", "team_id", "last_input_time"}

\* `state` when the conversion of field `bad` raises: the assignments
\* before it have been made, the others have not
PartialState(msg, bad) ==
    [f \in DOMAIN state |->
        IF Pos(f) < Pos(bad) THEN UpdateState(msg)[f] ELSE state[f]]

\* lines 354-365 with the value of field `bad` of the payload not
\* convertible: the exception leaves datagram_received, the event loop logs
\* it and goes on; nothing after the failing line is executed
DatagramBadField(msg, bad) ==
    /\ running
    /\ tick_pc = "sleep"
    /\ state' = PartialState(msg, bad)
    /\ last_cmd_time' = IF bad = "last_input_time" THEN clock
                        ELSE last_cmd_time
    /\ UNCHANGED proc
    /\ net' = [kind |-> "badfield", msg |-> <<>>, sent |-> <<>>]
    /\ UNCHANGED <<clock, last_input_time, in_standby, laser, cb_pc, running,
                   pinVars, tickVars, fireVars, irVars>>

\* line 354 with a payload that is a JSON number, string, list or null:
\* msg.get raises before any assignment
DatagramNotObject ==
    /\ running
    /\ tick_pc = "sleep"
    /\ UNCHANGED proc
    /\ net' = [kind |-> "notobject", msg |-> <<>>, sent |-> <<>>]
    /\ UNCHANGED <<clock, in_standby, laser, cb_pc, running, cmdVars,
                   pinVars, tickVars, fireVars, irVars>>

\* The payload whose field `bad` is replaced by a value of the wrong type
BadMsgs == {FireMsg}

NextBad ==
    \/ Advance
    \/ TickNow \/ TickTimer \/ TickDecide \/ TickStop \/ TickStandby
    \/ TickDrive
    \/ \E m \in {DriveMsg, IdleMsg} : Datagram(m)
    \/ \E m \in BadMsgs, bad \in BadFields : DatagramBadField(m, bad)
    \/ DatagramNotObject

SpecBad == Init /\ [][NextBad]_vars

\* a step that handles a datagram that parsed and could not be applied
Rejects == net'.kind \in {"badfield", "notobject"}

\* C33: a datagram that parses as JSON and cannot be applied changes no
\* field of the command state, no timestamp and no standby flag, starts no
\* fire thread and is not answered.
C33_AllOrNothing ==
    [][Rejects
        => /\ state' = state
           /\ last_cmd_time' = last_cmd_time
           /\ last_input_time' = last_input_time
           /\ in_standby' = in_standby /\ stby' = stby
           /\ threads' = threads
           /\ net'.sent = <<>>]_vars

----------------------------------------------------------------------------
(* Edges on several receiver pins, and the tick counter *)

\* The edges a frame of burst durations d puts on pin g, each stamped with
\* the time `at` since the session began; the first burst starts
\* INTER_BURST_US after t.
RECURSIVE Stamp(_, _, _, _)
Stamp(d, j, t, g) ==
    IF j > Len(d)
    THEN <<>>
    ELSE <<[level |-> 0, at |-> t + INTER_BURST_US, pin |-> g],
           [level |-> 1, at |-> t + INTER_BURST_US + d[j], pin |-> g]>>
         \o Stamp(d, j + 1, t + INTER_BURST_US + d[j], g)

\* Two pins' edges in the order of their stamps: pigpio reports the edges
\* of all pins to one callback thread in order of time
RECURSIVE Merge(_, _)
Merge(a, b) ==
    IF a = <<>> THEN b
    ELSE IF b = <<>> THEN a
    ELSE IF Head(a).at <= Head(b).at
         THEN <<Head(a)>> \o Merge(Tail(a), b)
         ELSE <<Head(b)>> \o Merge(a, Tail(b))

\* pigpio hands the next edge to the callback thread, with the pin it is on
\* and the tick of the counter
EdgeArrivesAt ==
    /\ running
    /\ wire.edges # <<>>
    /\ pending = NoEdge
    /\ clock' = StartTime + Head(wire.edges).at
    /\ pending' = [gpio |-> Head(wire.edges).pin,
                   level |-> Head(wire.edges).level,
                   tick |-> TickAt(clock')]
    /\ wire' = [wire EXCEPT !.edges = Tail(@)]
    /\ UNCHANGED proc
    /\ net' = NoNet
    /\ UNCHANGED <<in_standby, laser, cb_pc, running, rx, cmdVars, pinVars,
                   tickVars, fireVars>>

\* The burst durations of team t, burst 5 lengthened by v
Bursts(t, v) == [Sent(t, FALSE) EXCEPT ![5] = @ + v]

\* The frame of team a, its burst 5 lengthened by va, on pin p, and the
\* nominal frame of team b on pin q, begun `off` later.
PinWireOf(a, va, p, b, q, off) ==
    [team |-> a, pos |-> IF va = 0 THEN 0 ELSE 5, dev |-> va,
     carrier |-> FALSE, pin |-> p, next |-> -1,
     other |-> b, pin2 |-> q, off |-> off, epoch |-> 0,
     edges |-> Merge(Stamp(Bursts(a, va), 1, 0, p),
                     Stamp(Bursts(b, 0), 1, off, q))]

Offsets == {0, 400, 1000}

PinWires ==
    {PinWireOf(w[1], w[2], w[3][1], w[4], w[3][2], w[5]) :
        w \in {0, 255} \X {0, TOLERANCE + 1} \X {<<4, 27>>, <<27, 12>>}
              \X {0, 165, 255} \X Offsets}

InitPins ==
    /\ InitSession(InitState)
    /\ threads = [k \in 1..MaxThreads |-> NoThread]
    /\ tx = NoTx
    /\ rx = [g \in IR_RX_GPIOS |-> NewReceiver]
    /\ wire \in PinWires
    /\ pending = NoEdge
    /\ net = NoNet

NextPins ==
    \/ EdgeArrivesAt
    \/ EdgeCallback
    \/ HitStop

\* Reception of two frames on two receiver pins at once.
SpecPins == InitPins /\ [][NextPins]_vars

\* the bursts sent so far on pin g of a wire of PinWires
SentOn(g) ==
    IF g = wire.pin THEN Bursts(wire.team, wire.dev)
    ELSE IF g = wire.pin2 THEN Bursts(wire.other, 0)
    ELSE <<>>

\* the instant at which the frame on pin g is complete
EndOn(g) ==
    LET d == SentOn(g)
        sum[i \in 0..FRAME_LEN] ==
            IF i = 0 THEN 0 ELSE sum[i - 1] + INTER_BURST_US + d[i]
    IN  StartTime + sum[FRAME_LEN] + (IF g = wire.pin2 THEN wire.off ELSE 0)

\* the valid frame of the wire that is complete first
FirstValid ==
    IF wire.dev # 0 \/ EndOn(wire.pin2) < EndOn(wire.pin)
    THEN wire.pin2 ELSE wire.pin

\* C31: a callback changes the buffer and the edge timestamps of the pin
\* it is called for and of no other; each pin's buffer holds bursts of the
\* frame sent on that pin only; every receiver that completes a valid frame
\* calls on_laser_hit with its team, which registers the hit unless the
\* robot is already hit, so that of two valid frames on two pins the
\* earlier one is the hit and the later one changes nothing.
C31_ReceiversIndependent ==
    /\ [][\A g \in IR_RX_GPIOS : rx'[g] # rx[g] => pending.gpio = g]_vars
    /\ [](\A g \in IR_RX_GPIOS :
            /\ Len(rx[g].bursts) <= Len(SentOn(g))
            /\ rx[g].bursts = SubSeq(SentOn(g), 1, Len(rx[g].bursts)))
    /\ [][(Measures /\ Len(Filled) = FRAME_LEN /\ FrameValid(Filled))
            => /\ Filled = SentOn(pending.gpio)
               /\ IF laser.is_hit
                  THEN laser' = laser
                  ELSE /\ laser'.is_hit /\ cb_pc' = "stop"
                       /\ laser'.hit_by_team = DecodeTeam(Filled)]_vars
    /\ [](Consumed
            => /\ laser.is_hit
               /\ laser.hit_by_team = DecodeTeam(SentOn(FirstValid))
               /\ laser.hit_time = EndOn(FirstValid))

\* the frames of team 255 on GPIO 27 and of team 0 on GPIO 12, begun 0.4 ms
\* later, have both been decoded: the robot is hit by team 0, whose shorter
\* frame was complete first, and both buffers are empty
C31_Witness ==
    /\ Consumed /\ cb_pc = "idle"
    /\ wire.team = 255 /\ wire.dev = 0 /\ wire.pin = 27
    /\ wire.other = 0 /\ wire.pin2 = 12 /\ wire.off = 400
    /\ laser.is_hit /\ laser.hit_by_team = 0
    /\ laser.hit_time < clock
    /\ rx[27].bursts = <<>> /\ rx[12].bursts = <<>>

----------------------------------------------------------------------------
(* One receiver pin, with the tick counter passing through 0 *)

\* The frame of team t on GPIO 4, after a rising edge of the pin with no
\* falling edge before it if `stray` (the pin was low when the callback was
\* registered).  With j = 0 the tick counter is the clock; otherwise it
\* reads 0 at the instant e us after burst j begins: that falling edge has
\* tick 0 when e = 0 and the counter wraps inside the burst when e = 1.
TickWireOf(t, stray, j, e) ==
    LET frame == Stamp(Sent(t, FALSE), 1, 0, 4)
        edges == (IF stray THEN <<[level |-> 1, at |-> 100, pin |-> 4]>>
                  ELSE <<>>) \o frame
    IN  [team |-> t, pos |-> 0, dev |-> 0, carrier |-> FALSE, pin |-> 4,
         next |-> -1, stray |-> stray, zero |-> j, shift |-> e,
         epoch |-> IF j = 0 THEN 0 ELSE StartTime + frame[2 * j - 1].at + e,
         edges |-> edges, all |-> edges]

TickWires ==
    {TickWireOf(t, s, 0, 0) : t \in SampleTeams, s \in BOOLEAN}
    \cup
    {TickWireOf(165, w[1], w[2], w[3]) :
        w \in BOOLEAN \X (1..FRAME_LEN) \X {0, 1}}

InitTicks ==
    /\ InitSession(InitState)
    /\ threads = [k \in 1..MaxThreads |-> NoThread]
    /\ tx = NoTx
    /\ rx = [g \in IR_RX_GPIOS |-> NewReceiver]
    /\ wire \in TickWires
    /\ pending = NoEdge
    /\ net = NoNet

\* Reception of a frame around the wrap of the tick counter.
SpecTicks == InitTicks /\ [][NextPins]_vars

\* the place in the wire of the edge the callback is called for
EdgeIdx == Len(wire.all) - Len(wire.edges)

\* the place of the edge before it on the same pin, 0 if there is none
PrevIdx ==
    LET before == {i \in 1..(EdgeIdx - 1) : wire.all[i].pin = pending.gpio}
    IN  IF before = {} THEN 0
        ELSE CHOOSE i \in before : \A k \in before : k <= i

\* the pin fell since its previous rising edge
FreshFall == PrevIdx > 0 /\ wire.all[PrevIdx].level = 0

\* the time between that falling edge and the rising edge
PairWidth == wire.all[EdgeIdx].at - wire.all[PrevIdx].at

\* a step in which edge_callback handles an edge of the given level
Handled(level) ==
    pending # NoEdge /\ pending' = NoEdge /\ pending.level = level

\* C32: the callback of a rising edge appends one burst, the time since
\* the falling edge, when the pin fell since its previous rising edge, and
\* appends nothing when it did not; the callback of a falling edge appends
\* nothing.
C32_OneBurstPerPair ==
    /\ [][Handled(1)
            => IF FreshFall
               THEN rx'[pending.gpio].bursts =
                       IF Len(rx[pending.gpio].bursts) = FRAME_LEN - 1
                       THEN <<>>
                       ELSE Append(rx[pending.gpio].bursts, PairWidth)
               ELSE /\ rx'[pending.gpio].bursts = rx[pending.gpio].bursts
                    /\ laser' = laser]_vars
    /\ [][Handled(0)
            => /\ rx'[pending.gpio].bursts = rx[pending.gpio].bursts
               /\ laser' = laser]_vars

====
